---- MODULE Spec2Model ----
(***************************************************************************)
(* Model of the image colour-channel toolkit: the core colorspace engine   *)
(* (src/src/convert.py, class ColorspaceModifier) and the HTTP operation   *)
(* service built on it (src/api/main.py).                                  *)
(*                                                                         *)
(* The engine reads a channel plane as bytes, divides by 255.0, applies    *)
(* one float64 operation, optionally clamps to [0,1], multiplies by 255.0  *)
(* and casts to uint8.  The float64 steps are modelled bit-exactly: a      *)
(* float is a sign and a magnitude held as a natural number scaled by      *)
(* 2^FracBits, and every arithmetic result is rounded to 53 significant    *)
(* bits, ties to even.                                                     *)
(***************************************************************************)
EXTENDS Integers, Sequences, FiniteSets, TLC

(***************************************************************************)
(* Natural numbers wider than the checker's integers: little-endian        *)
(* sequences of limbs in base 2^15, without leading zero limbs.            *)
(***************************************************************************)
Base == 2^15

RECURSIVE BigNorm(_)
BigNorm(a) ==
    IF a = <<>> THEN <<>>
    ELSE IF a[Len(a)] = 0 THEN BigNorm(SubSeq(a, 1, Len(a) - 1))
    ELSE a

RECURSIVE BigFromNat(_)
BigFromNat(n) ==
    IF n = 0 THEN <<>> ELSE <<n % Base>> \o BigFromNat(n \div Base)

RECURSIVE BigToNat(_)
BigToNat(a) ==
    IF a = <<>> THEN 0 ELSE a[1] + Base * BigToNat(Tail(a))

Limb(a, i) == IF i <= Len(a) THEN a[i] ELSE 0

Max2(x, y) == IF x >= y THEN x ELSE y

RECURSIVE BigAddC(_, _, _, _)
BigAddC(a, b, i, carry) ==
    IF i > Max2(Len(a), Len(b))
    THEN (IF carry = 0 THEN <<>> ELSE <<carry>>)
    ELSE LET t == Limb(a, i) + Limb(b, i) + carry
         IN  <<t % Base>> \o BigAddC(a, b, i + 1, t \div Base)

BigAdd(a, b) == BigAddC(a, b, 1, 0)

RECURSIVE BigSubC(_, _, _, _)
BigSubC(a, b, i, borrow) ==
    IF i > Len(a) THEN <<>>
    ELSE LET t == Limb(a, i) - Limb(b, i) - borrow
         IN  IF t < 0 THEN <<t + Base>> \o BigSubC(a, b, i + 1, 1)
             ELSE <<t>> \o BigSubC(a, b, i + 1, 0)

\* a - b for a >= b
BigSub(a, b) == BigNorm(BigSubC(a, b, 1, 0))

RECURSIVE BigCmpAt(_, _, _)
BigCmpAt(a, b, i) ==
    IF i = 0 THEN 0
    ELSE IF a[i] > b[i] THEN 1
    ELSE IF a[i] < b[i] THEN -1
    ELSE BigCmpAt(a, b, i - 1)

\* -1, 0 or 1 as a < b, a = b, a > b
BigCmp(a, b) ==
    IF Len(a) > Len(b) THEN 1
    ELSE IF Len(a) < Len(b) THEN -1
    ELSE BigCmpAt(a, b, Len(a))

RECURSIVE BigMulC(_, _, _, _)
BigMulC(a, k, i, carry) ==
    IF i > Len(a) THEN BigFromNat(carry)
    ELSE LET t == a[i] * k + carry
         IN  <<t % Base>> \o BigMulC(a, k, i + 1, t \div Base)

\* a * k for 0 <= k < Base
BigMulSmall(a, k) == BigNorm(BigMulC(a, k, 1, 0))

RECURSIVE BigDivC(_, _, _, _)
BigDivC(a, k, i, rem) ==
    IF i = 0 THEN [q |-> <<>>, r |-> rem]
    ELSE LET t    == rem * Base + a[i]
             rest == BigDivC(a, k, i - 1, t % k)
         IN  [q |-> rest.q \o <<t \div k>>, r |-> rest.r]

\* quotient and remainder of a by k, for 0 < k < Base
BigDivNorm(d) == [q |-> BigNorm(d.q), r |-> d.r]
BigDivSmall(a, k) == BigDivNorm(BigDivC(a, k, Len(a), 0))

Zeros(n) == [i \in 1..n |-> 0]

\* a * 2^d
BigShl(a, d) ==
    IF a = <<>> THEN <<>>
    ELSE Zeros(d \div 15) \o BigMulSmall(a, 2^(d % 15))

\* floor(a / 2^d)
BigShr(a, d) ==
    LET k == d \div 15
    IN  IF k >= Len(a) THEN <<>>
        ELSE BigDivSmall(SubSeq(a, k + 1, Len(a)), 2^(d % 15)).q

RECURSIVE NatBitLen(_)
NatBitLen(n) == IF n = 0 THEN 0 ELSE 1 + NatBitLen(n \div 2)

BigBitLen(a) ==
    IF a = <<>> THEN 0 ELSE 15 * (Len(a) - 1) + NatBitLen(a[Len(a)])

BigOdd(a) == a # <<>> /\ a[1] % 2 = 1

RECURSIVE BigMulAt(_, _, _)
BigMulAt(a, b, i) ==
    IF i > Len(b) THEN <<>>
    ELSE BigAdd(Zeros(i - 1) \o BigMulSmall(a, b[i]), BigMulAt(a, b, i + 1))

\* a * b
BigMul(a, b) == IF a = <<>> \/ b = <<>> THEN <<>> ELSE BigNorm(BigMulAt(a, b, 1))

(***************************************************************************)
(* float64.  A value is [neg, mag] and stands for (-1)^neg * mag *         *)
(* 2^-FracBits.  Every value the engine can form from a byte, a parameter  *)
(* the model draws and one operation is a multiple of 2^-FracBits, so the *)
(* only rounding is the one to 53 significant bits.                        *)
(***************************************************************************)
FracBits == 5 * 15

\* round the natural number mag to 53 significant bits, ties to even;
\* sticky says that the exact value lies strictly above mag
\* whether q goes up by one: c compares what was cut off with a half
RoundsUp(q, c, sticky) == c > 0 \/ (c = 0 /\ (sticky \/ BigOdd(q)))

\* mag with its d low bits cut off is q
RoundCut(mag, d, q, sticky) ==
    BigShl(IF RoundsUp(q, BigCmp(BigSub(mag, BigShl(q, d)), BigShl(<<1>>, d - 1)), sticky)
           THEN BigAdd(q, <<1>>) ELSE q, d)

\* mag has len bits
RoundLen(mag, len, sticky) ==
    IF len <= 53 THEN mag ELSE RoundCut(mag, len - 53, BigShr(mag, len - 53), sticky)

Round53(mag, sticky) == RoundLen(mag, BigBitLen(mag), sticky)

FZero == [neg |-> FALSE, mag |-> <<>>]
FOne == [neg |-> FALSE, mag |-> BigShl(<<1>>, FracBits)]

\* the float equal to the natural number n
FFromNat(n) == [neg |-> FALSE, mag |-> BigShl(BigFromNat(n), FracBits)]

\* the float k/4 for an integer k: the parameters the model draws
Quarter(k) ==
    [neg |-> k < 0,
     mag |-> BigShl(BigFromNat(IF k < 0 THEN -k ELSE k), FracBits - 2)]

FNeg(x) == [neg |-> ~x.neg, mag |-> x.mag]

\* -1, 0 or 1 as x < y, x = y, x > y
FCmp(x, y) ==
    IF x.mag = <<>> /\ y.mag = <<>> THEN 0
    ELSE IF x.neg /\ ~y.neg THEN -1
    ELSE IF ~x.neg /\ y.neg THEN 1
    ELSE IF x.neg THEN BigCmp(y.mag, x.mag)
    ELSE BigCmp(x.mag, y.mag)

\* x + y, rounded
FAdd(x, y) ==
    [neg |-> IF x.neg = y.neg THEN x.neg
             ELSE IF BigCmp(x.mag, y.mag) >= 0 THEN x.neg /\ x.mag # y.mag
             ELSE y.neg,
     mag |-> Round53(IF x.neg = y.neg THEN BigAdd(x.mag, y.mag)
                     ELSE IF BigCmp(x.mag, y.mag) >= 0 THEN BigSub(x.mag, y.mag)
                     ELSE BigSub(y.mag, x.mag), FALSE)]

FSub(x, y) == FAdd(x, FNeg(y))

\* x * y, rounded
FMul(x, y) ==
    [neg |-> x.neg # y.neg,
     mag |-> BigShr(Round53(BigMul(x.mag, y.mag), FALSE), FracBits)]

\* x / n for a natural number n > 0, rounded
RoundQuotient(neg, d) == [neg |-> neg, mag |-> Round53(d.q, d.r # 0)]
FDivNat(x, n) == RoundQuotient(x.neg, BigDivSmall(x.mag, n))

\* numpy.fmin and numpy.fmax on two numbers
fmin(x, y) == IF FCmp(x, y) <= 0 THEN x ELSE y
fmax(x, y) == IF FCmp(x, y) >= 0 THEN x ELSE y

\* the integer part of x, towards zero
Signed(neg, t) == IF neg THEN -t ELSE t
FTrunc(x) == Signed(x.neg, BigToNat(BigShr(x.mag, FracBits)))

\* x * n for a natural number n < 2^15, rounded
FMulNat(x, n) == [neg |-> x.neg, mag |-> Round53(BigMulSmall(x.mag, n), FALSE)]

(***************************************************************************)
(* Python strings that the code measures, indexes or changes the case of   *)
(* (channel names, mode names) are sequences of characters.                *)
(***************************************************************************)
LowerCase ==
    <<"a", "b", "c", "d", "e", "f", "g", "h", "i", "j", "k", "l", "m",
      "n", "o", "p", "q", "r", "s", "t", "u", "v", "w", "x", "y", "z">>
UpperCase ==
    <<"A", "B", "C", "D", "E", "F", "G", "H", "I", "J", "K", "L", "M",
      "N", "O", "P", "Q", "R", "S", "T", "U", "V", "W", "X", "Y", "Z">>

\* the tables of the two cases, as explicit functions
UpperOf ==
    [ch \in {LowerCase[i] : i \in 1..26} |->
        UpperCase[CHOOSE i \in 1..26 : LowerCase[i] = ch]] @@ <<>>
LowerOf ==
    [ch \in {UpperCase[i] : i \in 1..26} |->
        LowerCase[CHOOSE i \in 1..26 : UpperCase[i] = ch]] @@ <<>>

UpperChar(ch) == IF ch \in DOMAIN UpperOf THEN UpperOf[ch] ELSE ch
LowerChar(ch) == IF ch \in DOMAIN LowerOf THEN LowerOf[ch] ELSE ch

\* str.upper() and str.lower()
Upper(str) == [i \in 1..Len(str) |-> UpperChar(str[i])]
Lower(str) == [i \in 1..Len(str) |-> LowerChar(str[i])]

\* Python's `sub in str`
Contains(str, sub) ==
    \E i \in 0..(Len(str) - Len(sub)) : SubSeq(str, i + 1, i + Len(sub)) = sub

\* str.index(sub) for a sub that occurs, as a 1-based position
IndexOf(str, sub) ==
    CHOOSE i \in 1..Len(str) :
        /\ i + Len(sub) - 1 <= Len(str)
        /\ SubSeq(str, i, i + Len(sub) - 1) = sub
        /\ \A j \in 1..(i - 1) :
               j + Len(sub) - 1 > Len(str) \/ SubSeq(str, j, j + Len(sub) - 1) # sub

RGB == <<"R", "G", "B">>
RGBA == <<"R", "G", "B", "A">>
L == <<"L">>
LA == <<"L", "A">>
HSV == <<"H", "S", "V">>
\* a mode the codec library knows and the engine does not support
CMYK == <<"C", "M", "Y", "K">>
DEFAULT == <<"d", "e", "f", "a", "u", "l", "t">>

COLOR_CHANNEL_TO_SHORTHAND ==
    (<<"h", "u", "e">> :> <<"h">>)
    @@ (<<"s", "a", "t", "u", "r", "a", "t", "i", "o", "n">> :> <<"s">>)
    @@ (<<"v", "a", "l", "u", "e">> :> <<"v">>)
    @@ (<<"r", "e", "d">> :> <<"r">>)
    @@ (<<"g", "r", "e", "e", "n">> :> <<"g">>)
    @@ (<<"b", "l", "u", "e">> :> <<"b">>)
    @@ (<<"a", "l", "p", "h", "a">> :> <<"a">>)
    @@ (<<"l", "u", "m", "i", "n", "a", "n", "c", "e">> :> <<"l">>)

SUPPORTED_COLOR_CHANNEL_SHORTHANDS ==
    <<<<"h">>, <<"s">>, <<"v">>, <<"r">>, <<"g">>, <<"b">>, <<"a">>, <<"l">>>>

\* the keys of SUPPORTED_PIL_MODES
SUPPORTED_PIL_MODES == {RGB, RGBA, L, LA, HSV}

SUPPORTED_OPERATIONS == <<"invert", "offset", "clamp", "scale", "threshold">>

\* numpy.sum over a plane, in storage order
RECURSIVE FSumTo(_, _)
FSumTo(v, n) == IF n = 0 THEN FZero ELSE FAdd(FSumTo(v, n - 1), v[n])

np_sum(v) == FSumTo(v, Len(v))
np_mean(v) == FDivNat(np_sum(v), Len(v))

RECURSIVE FInsert(_, _)
FInsert(srt, x) ==
    IF srt = <<>> THEN <<x>>
    ELSE IF FCmp(x, Head(srt)) <= 0 THEN <<x>> \o srt
    ELSE <<Head(srt)>> \o FInsert(Tail(srt), x)

RECURSIVE FSort(_)
FSort(v) == IF v = <<>> THEN <<>> ELSE FInsert(FSort(Tail(v)), Head(v))

\* numpy.median: the middle element, or the mean of the two middle elements
Middle(srt, n) ==
    IF n % 2 = 1 THEN srt[(n + 1) \div 2]
    ELSE np_mean(<<srt[n \div 2], srt[n \div 2 + 1]>>)

np_median(v) == Middle(FSort(v), Len(v))

RECURSIVE FMinTo(_, _)
FMinTo(v, n) == IF n = 1 THEN v[1] ELSE fmin(FMinTo(v, n - 1), v[n])
RECURSIVE FMaxTo(_, _)
FMaxTo(v, n) == IF n = 1 THEN v[1] ELSE fmax(FMaxTo(v, n - 1), v[n])

np_min(v) == FMinTo(v, Len(v))
np_max(v) == FMaxTo(v, Len(v))

\* one bit of the root at a time, from bit down to low: st.r is the root
\* so far and st.rem the number less its square
RECURSIVE BigSqrtBit(_, _, _)
BigSqrtBit(st, bit, low) ==
    IF bit < low THEN st
    ELSE LET t == BigAdd(BigShl(st.r, bit + 1), BigShl(<<1>>, 2 * bit))
         IN  IF BigCmp(t, st.rem) <= 0
             THEN BigSqrtBit([r |-> BigAdd(st.r, BigShl(<<1>>, bit)),
                              rem |-> BigSub(st.rem, t)], bit - 1, low)
             ELSE BigSqrtBit(st, bit - 1, low)

\* the same, a limb of bits at a time
RECURSIVE BigSqrtLimb(_, _)
BigSqrtLimb(st, bit) ==
    IF bit < 0 THEN st
    ELSE LET low == Max2(bit - 14, 0)
         IN  BigSqrtLimb(BigSqrtBit(st, bit, low), low - 1)

\* floor of the square root of the natural number a (r), and a less its
\* square (rem)
BigSqrt(a) == BigSqrtLimb([r |-> <<>>, rem |-> a], BigBitLen(a) \div 2)

\* the square root of x >= 0, rounded
RoundRoot(st) == [neg |-> FALSE, mag |-> Round53(st.r, st.rem # <<>>)]
FSqrt(x) == RoundRoot(BigSqrt(BigShl(x.mag, FracBits)))

\* numpy.std: the root of the mean squared distance to the mean
Square(x) == FMul(x, x)
StdAbout(v, m) == FSqrt(np_mean([i \in 1..Len(v) |-> Square(FSub(v[i], m))]))
np_std(v) == StdAbout(v, np_mean(v))

\* the keys of SUPPORTED_KEYWORD_PARAMS
SUPPORTED_KEYWORD_PARAMS == {"mean", "median", "min", "max", "sum", "std"}

\* SUPPORTED_KEYWORD_PARAMS[kw](v)
Aggregate(kw, v) ==
    CASE kw = "mean" -> np_mean(v)
      [] kw = "median" -> np_median(v)
      [] kw = "min" -> np_min(v)
      [] kw = "max" -> np_max(v)
      [] kw = "sum" -> np_sum(v)
      [] kw = "std" -> np_std(v)

\* the keys of SUPPORTED_CLAMP_MODES
SUPPORTED_CLAMP_MODES == {"min", "max"}

\* SUPPORTED_CLAMP_MODES[mode](v, color), elementwise
ClampWith(mode, v, color) ==
    [i \in 1..Len(v) |-> IF mode = "min" THEN fmin(v[i], color) ELSE fmax(v[i], color)]

\* the one-hop table of _get_format, in the order the dictionaries list it
FormatTable ==
    (RGB :> << <<RGBA, {<<"A">>}>>, <<HSV, {<<"H">>, <<"S">>, <<"V">>}>>, <<L, {<<"L">>}>> >>)
    @@ (RGBA :> << <<HSV, {<<"H">>, <<"S">>, <<"V">>}>>, <<L, {<<"L">>}>> >>)
    @@ (HSV :> << <<RGBA, {<<"R">>, <<"G">>, <<"B">>, <<"A">>}>>, <<LA, {<<"L">>}>> >>)
    @@ (L :> << <<RGB, {<<"R">>, <<"G">>, <<"B">>}>>, <<RGBA, {<<"A">>}>>,
                <<HSV, {<<"H">>, <<"S">>, <<"V">>}>> >>)
    @@ (LA :> << <<RGBA, {<<"R">>, <<"G">>, <<"B">>}>>, <<HSV, {<<"H">>, <<"S">>, <<"V">>}>> >>)

\* whether _get_format(current, k) returns rather than raises
HasFormat(current, k) ==
    \E i \in 1..Len(FormatTable[current]) : k \in FormatTable[current][i][2]

\* _get_format answering the first entry of the table, whatever it lists
_get_format_First(current, k) == FormatTable[current][1][1]

\* the mode _get_format(current, k) returns: the first entry that lists k
_get_format(current, k) ==
    LET tbl == FormatTable[current]
        i   == CHOOSE j \in 1..Len(tbl) :
                   /\ k \in tbl[j][2]
                   /\ \A h \in 1..(j - 1) : k \notin tbl[h][2]
    IN  tbl[i][1]

\* _clamp leaving the number as it is
_clamp_Off(v) == v

\* _clamp on one number
_clamp(v) == fmax(fmin(v, FOne), FZero)

(***************************************************************************)
(* The session.  An image is [mode, planes, format]: planes holds one      *)
(* plane per character of mode, a plane is a sequence of bytes, one per    *)
(* pixel, and format is the container the codec read it from ("None" for   *)
(* an image that merge or convert made).                                   *)
(***************************************************************************)
VARIABLES
    self,          \* the ColorspaceModifier: its six attributes
    last,          \* the call that ended last: arguments, outcome, effects
    prev,          \* the call that ended before it
    nops,          \* calls made so far
    loaded_image,  \* the bound image as it was when it was bound
    convert_arg,   \* <<mode>> of the last convert() that returned, or <<>>
    api,           \* the HTTP service: the request in hand and its response
    cli,           \* the command-line front end: the chain and how far it ran
    legacy,        \* the legacy batch tool: its arguments, files and progress
    gui            \* the browser control panel: the properties of its components

vars == <<self, last, prev, nops, loaded_image, convert_arg, api, cli, legacy, gui>>

None == <<>>

\* pixels per plane of the images the model draws
NPix == 1
\* pixels per plane of the images the transforms are computed on
OpsPix == 2
\* calls a behaviour makes
MaxOps == 2

\* Image.merge(mode, bands)
Image_merge(mode, bands) == [mode |-> mode, planes |-> bands, format |-> "None"]

\* Image.convert(mode): a copy when the mode is the same; otherwise the
\* codec library's conversion, whose pixel values the engine does not
\* decide: every pixel of every plane is the byte cb the action draws
Image_convert(img, mode, cb) ==
    [mode |-> mode,
     planes |-> IF mode = img.mode THEN img.planes
                ELSE [i \in 1..Len(mode) |-> [p \in 1..Len(img.planes[1]) |-> cb]],
     format |-> "None"]

\* the state of one call in progress: the session, the exception raised
\* ("" while none), and what the call did
NewCtx(s) ==
    [self |-> s, err |-> "", nconv |-> 0, merged |-> FALSE, read |-> <<>>,
     range |-> <<>>, value |-> <<>>, color |-> FZero, v |-> <<>>, c |-> <<>>,
     stored |-> <<>>, ub |-> FALSE, wrote |-> None]

Raise(ctx, e) == [ctx EXCEPT !.err = e]

\* ColorspaceModifier.__init__ on a supported image
Session(img, auto_clamp) ==
    [_image_handle |-> img, _loaded_channels |-> None, _auto_clamp |-> auto_clamp,
     _image_format |-> img.format, _current_format |-> img.mode,
     _output_format |-> img.mode]

_close_channels(ctx) ==
    IF ctx.self._loaded_channels # None
    THEN [ctx EXCEPT
            !.self._image_handle =
                Image_merge(ctx.self._current_format, ctx.self._loaded_channels),
            !.self._loaded_channels = None,
            !.merged = TRUE]
    ELSE ctx

\* the conversion proper, on a session whose channels are closed
ConvertClosed(c1, new_format, cb) ==
    [c1 EXCEPT
        !.self._image_handle = Image_convert(c1.self._image_handle, new_format, cb),
        !.self._current_format = new_format,
        !.nconv = @ + 1]

_convert_image(ctx, new_format, cb) ==
    IF new_format \notin SUPPORTED_PIL_MODES THEN Raise(ctx, "ValueError")
    ELSE ConvertClosed(_close_channels(ctx), new_format, cb)

\* _get_channel: split the image on first use, answer the plane over 255.0
\* the image split into its planes, unless it already is
Split(ctx) ==
    IF ctx.self._loaded_channels = None
    THEN [ctx EXCEPT !.self._loaded_channels = ctx.self._image_handle.planes]
    ELSE ctx

\* np.asarray(plane) / 255.0
ReadPlane(c1, plane) ==
    [c1 EXCEPT !.read = plane,
               !.v = [i \in 1..Len(plane) |-> FDivNat(FFromNat(plane[i]), 255)]]

\* the channel K of a split image
ChannelOf(c1, K) ==
    IF ~Contains(c1.self._current_format, K) THEN Raise(c1, "ValueError")
    ELSE ReadPlane(c1, c1.self._loaded_channels[IndexOf(c1.self._current_format, K)])

_get_channel(ctx, channel) == ChannelOf(Split(ctx), Upper(channel))

\* whether the integer part of x is a byte
IsByte(t) == 0 <= t /\ t <= 255

\* astype(uint8) of a number whose integer part is t: t when it is a byte;
\* otherwise the cast is undefined and the build decides: the low eight
\* bits of t ("wrap") or the nearest byte ("saturate")
ToUint8(t, cast) ==
    IF IsByte(t) THEN t
    ELSE IF cast = "wrap" THEN t % 256
    ELSE IF t < 0 THEN 0 ELSE 255

CastOutcomes == {"wrap", "saturate"}

\* _set_channel: ctx.stored is the plane stored, ctx.ub whether a cast of
\* the call was undefined
\* the plane b stored at index ix; t holds the integer parts cast to b
StorePlane(ctx, ix, t, b) ==
    [ctx EXCEPT !.self._loaded_channels[ix] = b,
                !.stored = b,
                !.ub = \E i \in 1..Len(t) : ~IsByte(t[i])]

\* astype(uint8) of the integer parts t
CastPlane(ctx, ix, t, cast) ==
    StorePlane(ctx, ix, t, [i \in 1..Len(t) |-> ToUint8(t[i], cast)])

\* _set_channel storing at the index after the channel's
_set_channel_Next(ctx, channel, value, cast) ==
    CastPlane(ctx, (IndexOf(ctx.self._current_format, Upper(channel))
                        % Len(ctx.self._current_format)) + 1,
              [i \in 1..Len(value) |-> FTrunc(FMulNat(value[i], 255))], cast)

_set_channel(ctx, channel, value, cast) ==
    CastPlane(ctx, IndexOf(ctx.self._current_format, Upper(channel)),
              [i \in 1..Len(value) |-> FTrunc(FMulNat(value[i], 255))], cast)

\* whether the first two lines of _pre find a shorthand for the channel
HasShorthand(channel) ==
    Len(channel) = 1 \/ Lower(channel) \in DOMAIN COLOR_CHANNEL_TO_SHORTHAND

Shorthand(channel) ==
    IF Len(channel) # 1 THEN COLOR_CHANNEL_TO_SHORTHAND[Lower(channel)] ELSE channel

\* _pre: the shorthand of the channel, the conversion when the mode lacks
\* it, and the normalized plane (in ctx.v) with the upper-case channel (ctx.c)
\* the session in a mode that has the channel K, or the error of
\* _get_format
InModeOf(ctx, K, cb) ==
    IF Contains(ctx.self._current_format, K) THEN ctx
    ELSE IF HasFormat(ctx.self._current_format, K)
    THEN _convert_image(ctx, _get_format(ctx.self._current_format, K), cb)
    ELSE Raise(ctx, "ValueError")

\* the last line of _pre
PreRead(c1, K) == IF c1.err # "" THEN c1 ELSE [_get_channel(c1, K) EXCEPT !.c = K]

PreShorthand(ctx, K, cb) == PreRead(InModeOf(ctx, K, cb), K)

_pre(ctx, channel, cb) ==
    IF ~HasShorthand(channel) THEN Raise(ctx, "KeyError")
    ELSE PreShorthand(ctx, Upper(Shorthand(channel)), cb)

\* where a number lies with respect to [0, 1]
Range(x) ==
    IF FCmp(x, FZero) < 0 THEN "below" ELSE IF FCmp(x, FOne) > 0 THEN "above" ELSE "unit"

\* _post: clamp when the flag is set, then store; ctx.range records where
\* the numbers handed to _set_channel lie
PostValue(ctx, val, cast) ==
    _set_channel([ctx EXCEPT !.range = [i \in 1..Len(val) |-> Range(val[i])]],
                 ctx.c, val, cast)

_post(ctx, cast) ==
    PostValue(ctx, IF ctx.self._auto_clamp
                   THEN [i \in 1..Len(ctx.value) |-> _clamp(ctx.value[i])]
                   ELSE ctx.value, cast)

\* the parameter of a call: a number, a keyword or nothing
Num(x) == [kind |-> "num", kw |-> "", num |-> x]
Kw(k) == [kind |-> "kw", kw |-> k, num |-> FZero]
NoParam == [kind |-> "none", kw |-> "", num |-> FZero]

\* `color in SUPPORTED_KEYWORD_PARAMS`
IsKeyword(color) == color.kind = "kw" /\ color.kw \in SUPPORTED_KEYWORD_PARAMS

(***************************************************************************)
(* The five transforms, each on a list of one channel entry, up to the     *)
(* plane (ctx.value) the method hands to _post.                            *)
(***************************************************************************)
\* invert computing -x for 1 - x
\* the plane a transform computes, unless _pre raised
WithValue(c1, value) == IF c1.err # "" THEN c1 ELSE [c1 EXCEPT !.value = value]

Negated(c1) == WithValue(c1, [i \in 1..Len(c1.v) |-> FNeg(c1.v[i])])
invert_Negated(ctx, channel, cb) == Negated(_pre(ctx, channel, cb))

\* v = 1.0 - v
Inverted(c1) == WithValue(c1, [i \in 1..Len(c1.v) |-> FSub(FOne, c1.v[i])])
invert(ctx, channel, cb) == Inverted(_pre(ctx, channel, cb))

\* the threshold step writing a half where it should write 1
ThresholdPlane_Half(v, color) ==
    [i \in 1..Len(v) |-> IF FCmp(v[i], color) < 0 THEN FZero ELSE Quarter(2)]

\* v[v < color] = 0 and then v[v >= color] = 1, on the plane as it then is
ThresholdPlane(v, color) ==
    LET v1 == [i \in 1..Len(v) |-> IF FCmp(v[i], color) < 0 THEN FZero ELSE v[i]]
    IN  [i \in 1..Len(v) |-> IF FCmp(v1[i], color) >= 0 THEN FOne ELSE v1[i]]

\* the plane set against the resolved colour col
ThresholdAt(c1, col) == [c1 EXCEPT !.color = col, !.value = ThresholdPlane(c1.v, col)]

\* the body of the loop after _pre
Thresholded(c1, color) ==
    IF c1.err # "" THEN c1
    ELSE IF ~IsKeyword(color) THEN Raise(c1, "KeyError")
    ELSE ThresholdAt(c1, Aggregate(color.kw, c1.v))

threshold(ctx, channel, color, cb) == Thresholded(_pre(ctx, channel, cb), color)

\* the mode check and the clamp against the resolved colour col
ClampAt(c1, mode, col) ==
    IF mode \notin SUPPORTED_CLAMP_MODES THEN Raise([c1 EXCEPT !.color = col], "ValueError")
    ELSE [c1 EXCEPT !.color = col, !.value = ClampWith(mode, c1.v, col)]

\* the body of the loop after _pre
Clamped(c1, mode, color) ==
    IF c1.err # "" THEN c1
    ELSE IF ~IsKeyword(color) THEN Raise(c1, "ValueError")
    ELSE ClampAt(c1, mode, Aggregate(color.kw, c1.v))

clamp(ctx, channel, mode, color, cb) == Clamped(_pre(ctx, channel, cb), mode, color)

\* v *= factor
Scaled(c1, factor) == WithValue(c1, [i \in 1..Len(c1.v) |-> FMul(c1.v[i], factor)])
scale(ctx, channel, factor, cb) == Scaled(_pre(ctx, channel, cb), factor)

\* offset computing x - y for x + y
Lowered(c1, y) == WithValue(c1, [i \in 1..Len(c1.v) |-> FSub(c1.v[i], y)])
offset_Subtracts(ctx, channel, y, cb) == Lowered(_pre(ctx, channel, cb), y)

\* v += offset
Raised(c1, y) == WithValue(c1, [i \in 1..Len(c1.v) |-> FAdd(c1.v[i], y)])
offset(ctx, channel, y, cb) == Raised(_pre(ctx, channel, cb), y)

\* convert leaving the desired output mode as it was
convert_KeepsOutput(ctx, new_format, cb) == _convert_image(ctx, new_format, cb)

convert(ctx, new_format, cb) ==
    LET c1 == _convert_image(ctx, new_format, cb)
    IN  IF c1.err # "" THEN c1 ELSE [c1 EXCEPT !.self._output_format = new_format]

\* save_image converting whether or not the mode differs
save_image_AlwaysConverts(ctx, output_format, cb) ==
    LET fmt == IF output_format = DEFAULT THEN ctx.self._output_format ELSE output_format
    IN  IF output_format # DEFAULT /\ output_format \notin SUPPORTED_PIL_MODES
        THEN Raise(ctx, "ValueError")
        ELSE LET c2 == _close_channels(_convert_image(ctx, fmt, cb))
             IN  [c2 EXCEPT !.wrote =
                     <<[mode |-> c2.self._image_handle.mode,
                        planes |-> c2.self._image_handle.planes,
                        format |-> c2.self._image_format]>>]

\* save_image: ctx.wrote is what the codec is handed: the image and the
\* container format to write it in
save_image(ctx, output_format, cb) ==
    LET fmt == IF output_format = DEFAULT THEN ctx.self._output_format ELSE output_format
    IN  IF output_format # DEFAULT /\ output_format \notin SUPPORTED_PIL_MODES
        THEN Raise(ctx, "ValueError")
        ELSE LET c1 == IF ctx.self._current_format # fmt
                       THEN _convert_image(ctx, fmt, cb) ELSE ctx
                 c2 == _close_channels(c1)
             IN  IF c1.err # "" THEN c1
                 ELSE [c2 EXCEPT !.wrote =
                          <<[mode |-> c2.self._image_handle.mode,
                             planes |-> c2.self._image_handle.planes,
                             format |-> c2.self._image_format]>>]

(***************************************************************************)
(* Calls.  A call is one method of the session run to its return or to     *)
(* the exception it raises; what it changed before raising stays changed.  *)
(***************************************************************************)
NoCall ==
    [op |-> "none", channel |-> <<>>, param |-> NoParam, cmode |-> "", fmt |-> <<>>,
     outcome |-> "ok", auto_clamp |-> FALSE, mode0 |-> <<>>, read |-> <<>>,
     range |-> <<>>, nconv |-> 0, merged |-> FALSE, color |-> FZero, c |-> <<>>,
     stored |-> <<>>, ub |-> FALSE, wrote |-> None]

\* the record of a call that ended in ctx
Record(op, channel, param, cmode, fmt, ctx) ==
    [op |-> op, channel |-> channel, param |-> param, cmode |-> cmode, fmt |-> fmt,
     outcome |-> IF ctx.err = "" THEN "ok" ELSE ctx.err,
     auto_clamp |-> self._auto_clamp, mode0 |-> self._current_format,
     read |-> ctx.read, range |-> ctx.range, nconv |-> ctx.nconv,
     merged |-> ctx.merged, color |-> ctx.color, c |-> ctx.c, stored |-> ctx.stored,
     ub |-> ctx.ub, wrote |-> ctx.wrote]

Finish(rec, ctx) ==
    /\ self' = ctx.self
    /\ last' = rec
    /\ prev' = last
    /\ nops' = nops + 1
    /\ loaded_image' = loaded_image
    /\ api' = api
    /\ cli' = cli
    /\ legacy' = legacy
    /\ gui' = gui
    /\ convert_arg' =
           IF rec.op = "convert" /\ rec.outcome = "ok" THEN <<rec.fmt>> ELSE convert_arg

\* the bytes a codec conversion may yield
ConvBytes == {64, 200}

\* the codec's answer is drawn only for a call that converts
CodecDraw(converts) == IF converts THEN ConvBytes ELSE {0}

\* whether _pre finds the channel missing from the current mode
Missing(channel) ==
    HasShorthand(channel) /\ ~Contains(self._current_format, Upper(Shorthand(channel)))

Post(ctx, cast) == IF ctx.err # "" THEN ctx ELSE _post(ctx, cast)

\* the ways a transform that reached _post in ctx may end: one, unless a
\* cast is undefined
PostOutcomes(ctx) == {Post(ctx, cast) : cast \in CastOutcomes}

Invert(channel) ==
    /\ nops < MaxOps
    /\ \E cb \in CodecDraw(Missing(channel)) :
         \E c2 \in PostOutcomes(invert(NewCtx(self), channel, cb)) :
            Finish(Record("invert", channel, NoParam, "", <<>>, c2), c2)

Offset(channel, y) ==
    /\ nops < MaxOps
    /\ \E cb \in CodecDraw(Missing(channel)) :
         \E c2 \in PostOutcomes(offset(NewCtx(self), channel, y, cb)) :
            Finish(Record("offset", channel, Num(y), "", <<>>, c2), c2)

Scale(channel, factor) ==
    /\ nops < MaxOps
    /\ \E cb \in CodecDraw(Missing(channel)) :
         \E c2 \in PostOutcomes(scale(NewCtx(self), channel, factor, cb)) :
            Finish(Record("scale", channel, Num(factor), "", <<>>, c2), c2)

Threshold(channel, color) ==
    /\ nops < MaxOps
    /\ \E cb \in CodecDraw(Missing(channel)) :
         \E c2 \in PostOutcomes(threshold(NewCtx(self), channel, color, cb)) :
            Finish(Record("threshold", channel, color, "", <<>>, c2), c2)

Clamp(channel, mode, color) ==
    /\ nops < MaxOps
    /\ \E cb \in CodecDraw(Missing(channel)) :
         \E c2 \in PostOutcomes(clamp(NewCtx(self), channel, mode, color, cb)) :
            Finish(Record("clamp", channel, color, mode, <<>>, c2), c2)

Convert(new_format) ==
    /\ nops < MaxOps
    /\ \E cb \in CodecDraw(new_format \in SUPPORTED_PIL_MODES
                           /\ new_format # self._current_format) :
         \E c1 \in {convert(NewCtx(self), new_format, cb)} :
            Finish(Record("convert", <<>>, NoParam, "", new_format, c1), c1)

SaveImage(output_format) ==
    /\ nops < MaxOps
    /\ \E cb \in CodecDraw(
              IF output_format = DEFAULT THEN self._output_format # self._current_format
              ELSE output_format \in SUPPORTED_PIL_MODES
                   /\ output_format # self._current_format) :
         \E c1 \in {save_image(NewCtx(self), output_format, cb)} :
            Finish(Record("save_image", <<>>, NoParam, "", output_format, c1), c1)

\* the service while it has no request
NoRequest == [request |-> None, response |-> None]

\* the command-line front end while it runs no chain
NoChain == [commands |-> <<>>]

\* the legacy batch tool while it does not run
NoScript == [phase |-> "none"]

\* the browser control panel while no page is open
NoPanel == [page |-> "none"]

(***************************************************************************)
(* Inputs.                                                                 *)
(***************************************************************************)
InitBytes == <<0, 1, 102, 128, 255>>

\* the k-th test image of a mode: the bytes of InitBytes in turn, starting
\* at a place that moves with k, the channel and the pixel
TestImage(mode, k, n) ==
    [mode |-> mode,
     planes |-> [i \in 1..Len(mode) |->
                    [p \in 1..n |-> InitBytes[((k + i + p) % Len(InitBytes)) + 1]]],
     format |-> "PNG"]

\* a session just constructed on one of a set of supported images
InitSession(images, clamps) ==
    \E img \in images, auto_clamp \in clamps :
        /\ self = Session(img, auto_clamp)
        /\ loaded_image = img
        /\ last = NoCall
        /\ prev = NoCall
        /\ nops = 0
        /\ convert_arg = <<>>
        /\ api = NoRequest
        /\ cli = NoChain
        /\ legacy = NoScript
        /\ gui = NoPanel

Shorthands == {SUPPORTED_COLOR_CHANNEL_SHORTHANDS[i] : i \in 1..8}

\* channel arguments: the shorthands, full names in mixed case, a letter
\* that is no channel and a name that is no channel
Channels ==
    Shorthands \cup {<<"r", "e", "d">>, <<"H", "u", "e">>, <<"x">>, <<"f", "o", "o">>}

\* mode arguments of convert and save_image
Formats == SUPPORTED_PIL_MODES \cup {CMYK}

Init == InitSession({TestImage(mode, 0, NPix) : mode \in SUPPORTED_PIL_MODES}, BOOLEAN)

Next ==
    \/ \E channel \in Channels : Invert(channel)
    \/ \E new_format \in Formats : Convert(new_format)
    \/ \E output_format \in Formats \cup {DEFAULT} : SaveImage(output_format)

Spec == Init /\ [][Next]_vars

(***************************************************************************)
(* The transforms on the red channel of RGB images, with their parameters. *)
(***************************************************************************)
\* offsets and factors, in quarters
OffsetQuarters == {1, 2, -1}
Offsets == {Quarter(k) : k \in OffsetQuarters}
Factors == {Quarter(2), Quarter(6), Quarter(-4)}

\* threshold parameters: the six keywords, a number and a word that is no
\* keyword
Colors ==
    {Kw(k) : k \in SUPPORTED_KEYWORD_PARAMS} \cup {Num(Quarter(2)), Kw("avg")}

\* clamp modes and parameters
ClampModes == {"min", "max", "mid"}
ClampColors == {Kw("mean"), Kw("max"), Num(Quarter(2)), Kw("avg")}

Red == <<"r">>

\* red planes <<102, 128>>, <<255, 0>> and <<0, 1>>
OpsSeeds == {0, 2, 3}

InitOps == InitSession({TestImage(RGB, k, OpsPix) : k \in OpsSeeds}, BOOLEAN)

NextOps ==
    \/ Invert(Red)
    \/ \E y \in Offsets : Offset(Red, y)
    \/ \E factor \in Factors : Scale(Red, factor)
    \/ \E color \in Colors : Threshold(Red, color)
    \/ \E mode \in ClampModes, color \in ClampColors : Clamp(Red, mode, color)

SpecOps == InitOps /\ [][NextOps]_vars

(***************************************************************************)
(* invert on every channel of every mode, over every byte.                 *)
(***************************************************************************)
Bytes == 0..255

\* an image whose planes hold b and the bytes after it
SweepImage(mode, b) ==
    [mode |-> mode,
     planes |-> [i \in 1..Len(mode) |-> [p \in 1..NPix |-> (b + i + p - 2) % 256]],
     format |-> "PNG"]

InitSweep ==
    InitSession({SweepImage(mode, b) : mode \in SUPPORTED_PIL_MODES, b \in Bytes}, BOOLEAN)

\* invert on a channel of the current mode
InvertPresent ==
    \E channel \in Shorthands :
        /\ Contains(self._current_format, Upper(channel))
        /\ Invert(channel)

NextSweep == InvertPresent

SpecSweep == InitSweep /\ [][NextSweep]_vars

(***************************************************************************)
(* The HTTP service.  A data spec is a string, kept as the sequence of its *)
(* pieces: "data:", a mimetype, ";", an encoding, ",", a payload.  The     *)
(* result of a step is [err, status, val]: err is "" when it returned,     *)
(* "HTTPException" with its status, or the exception that escaped.         *)
(***************************************************************************)
Ok(val) == [err |-> "", status |-> 0, val |-> <<val>>]
HTTPException(status_code) == [err |-> "HTTPException", status |-> status_code, val |-> <<>>]
Escapes(e) == [err |-> e, status |-> 0, val |-> <<>>]

\* mimetypes of SUPPORTED_IMAGE_TYPES, which holds one for every extension
\* the codec library registers
SUPPORTED_IMAGE_TYPES == {<<"image/png">>, <<"image/jpeg">>, <<"image/gif">>}

\* the bytes of an encoded image, and bytes that are no image
FileOf(img) == [image |-> <<img>>]
NoImageBytes == [image |-> <<>>]

\* the base64 texts the model draws, with the bytes they decode to
Payloads ==
    ("iVBORw0rgb" :> FileOf(TestImage(RGB, 0, NPix)))
    @@ ("iVBORw0la" :> FileOf(TestImage(LA, 1, NPix)))
    @@ ("/9j/4cmyk" :> FileOf(TestImage(CMYK, 0, NPix)))
    @@ ("aGVsbG8=" :> NoImageBytes)

\* base64.b64decode of the text after the comma
b64decode(content_string) ==
    IF Len(content_string) = 1 /\ content_string[1] \in DOMAIN Payloads
    THEN Ok(Payloads[content_string[1]])
    ELSE Escapes("binascii.Error")

\* base64.b64encode(...).decode('utf-8'): the text that decodes to the bytes
b64encode(bytes) == [b64 |-> bytes]

\* the positions of the commas of a string
Commas(data) == {i \in 1..Len(data) : data[i] = ","}

\* the position of the first comma of a data spec, 0 when it has none
FirstComma(data) ==
    IF Commas(data) = {} THEN 0
    ELSE CHOOSE i \in Commas(data) : \A j \in Commas(data) : i <= j

\* the position of the first ";" of a string, 0 when it has none
FirstSemicolon(str) ==
    IF \E i \in 1..Len(str) : str[i] = ";"
    THEN CHOOSE i \in 1..Len(str) : str[i] = ";" /\ \A j \in 1..(i - 1) : str[j] # ";"
    ELSE 0

\* parse_file without the check of line 41: a file: prefix falls through
\* to the last line
parse_file_FileAllowed(data, fetch) ==
    IF Commas(data) = {} THEN HTTPException(400)
    ELSE IF Cardinality(Commas(data)) # 1 THEN Escapes("ValueError")
    ELSE HTTPException(400)

\* parse_file; fetch is the answer of the remote server to requests.get
parse_file(data, fetch) ==
    IF Commas(data) = {} THEN HTTPException(400)
    ELSE IF Cardinality(Commas(data)) # 1 THEN Escapes("ValueError")
    ELSE LET at == CHOOSE i \in Commas(data) : TRUE
             content_type == SubSeq(data, 1, at - 1)
             content_string == SubSeq(data, at + 1, Len(data))
         IN  IF content_type # <<>> /\ content_type[1] = "file:" THEN HTTPException(403)
             ELSE IF content_type # <<>> /\ content_type[1] = "data:"
             THEN IF FirstSemicolon(content_type) = 0 THEN Escapes("ValueError")
                  ELSE LET mimetype == SubSeq(content_type, 2, FirstSemicolon(content_type) - 1)
                       IN  IF mimetype \notin SUPPORTED_IMAGE_TYPES THEN HTTPException(400)
                           ELSE IF SubSeq(content_type, Len(content_type) - 1, Len(content_type))
                                   = <<";", "base64">>
                           THEN b64decode(content_string)
                           ELSE HTTPException(400)
             ELSE IF content_type = <<"url">>
             THEN IF fetch.status_code # 200 THEN HTTPException(fetch.status_code)
                  ELSE Ok(fetch.content)
             ELSE HTTPException(400)

\* the calls parse_file makes outside itself on a data spec: the decoder
\* (line 48), the HTTP client (line 52), or none
parse_file_calls(data) ==
    IF Cardinality(Commas(data)) # 1 THEN {}
    ELSE IF data[1] = "," THEN {}
    ELSE IF data[1] = "file:" THEN {}
    ELSE IF data[1] = "data:"
    THEN IF /\ FirstSemicolon(SubSeq(data, 1, FirstComma(data) - 1)) # 0
            /\ SubSeq(data, 2, FirstSemicolon(data) - 1) \in SUPPORTED_IMAGE_TYPES
            /\ SubSeq(data, FirstComma(data) - 2, FirstComma(data) - 1) = <<";", "base64">>
         THEN {"base64.b64decode"} ELSE {}
    ELSE IF SubSeq(data, 1, FirstComma(data) - 1) = <<"url">> THEN {"requests.get"}
    ELSE {}

\* Image.open(BytesIO(raw_input))
Image_open(raw_input) ==
    IF raw_input.image = <<>> THEN Escapes("UnidentifiedImageError")
    ELSE Ok(raw_input.image[1])

\* a BytesIO and the bytes its getvalue() answers
BytesIO(bytes) == [type |-> "BytesIO", value |-> bytes]
getvalue(output_handle) == [type |-> "bytes", value |-> output_handle.value]

\* encode_output(output_buffer): output_buffer.getvalue() exists on a
\* BytesIO, not on bytes
encode_output(output_buffer) ==
    IF output_buffer.type # "BytesIO" THEN Escapes("AttributeError")
    ELSE Ok(<<"data:image/png;base64,", b64encode(output_buffer.value)>>)

\* a call of encode_output with the positional arguments args: the
\* function takes one
Call_encode_output(args) ==
    IF Len(args) # 1 THEN Escapes("TypeError") ELSE encode_output(args[1])

\* request values: params is null or a list of items, an item a number
\* or a tuple of numbers and words; input is null or a list of
\* (name, data spec) pairs
Null == [null |-> TRUE, items |-> <<>>]
List(items) == [null |-> FALSE, items |-> items]
Scalar(x) == [scalar |-> TRUE, parts |-> <<Num(x)>>]
Tuple(parts) == [scalar |-> FALSE, parts |-> parts]

\* the parameter the engine sees when it is handed a tuple
TupleParam == [kind |-> "tuple", kw |-> "", num |-> FZero]

\* the first exception of a list of outcomes, "" when there is none
FirstErr(es) ==
    IF \A i \in 1..Len(es) : es[i] = "" THEN ""
    ELSE es[CHOOSE i \in 1..Len(es) : es[i] # "" /\ \A j \in 1..(i - 1) : es[j] = ""]

\* what `float(c) if c not in ['mean', 'median'] else c` raises
FloatUnlessKeyword(c) ==
    IF c.kind = "kw" /\ c.kw \notin {"mean", "median"} THEN "ValueError" ELSE ""

\* what unpacking an item into n names and converting its last part raises
UnpackErr(item, n) ==
    IF item.scalar THEN "TypeError"
    ELSE IF Len(item.parts) # n THEN "ValueError"
    ELSE FloatUnlessKeyword(item.parts[n])

Min2(x, y) == IF x <= y THEN x ELSE y

\* zip(channels, items)
zip(channels, items) ==
    [i \in 1..Min2(Len(channels), Len(items)) |-> [channel |-> channels[i], arg |-> items[i]]]

\* invert, offset or scale on a list of entries, in order, up to the first
\* exception
ApplyOne(ctx, operation, e, cb) ==
    CASE operation = "invert" -> invert(ctx, e.channel, cb)
      [] operation = "offset" -> offset(ctx, e.channel, e.arg.parts[1].num, cb)
      [] operation = "scale" -> scale(ctx, e.channel, e.arg.parts[1].num, cb)

RECURSIVE ApplyAll(_, _, _, _, _)
ApplyAll(ctx, operation, entries, cb, cast) ==
    IF entries = <<>> \/ ctx.err # "" THEN ctx
    ELSE ApplyAll(Post(ApplyOne(ctx, operation, Head(entries), cb), cast),
                  operation, Tail(entries), cb, cast)

do_operation(ctx, operation, channels, params, cb, cast) ==
    CASE operation = "invert" ->
           ApplyAll(ctx, operation, zip(channels, [i \in 1..Len(channels) |-> Scalar(FZero)]),
                    cb, cast)
      [] operation \in {"offset", "scale"} ->
           IF params.null THEN Raise(ctx, "TypeError")
           ELSE LET es == [i \in 1..Len(params.items) |->
                              IF params.items[i].scalar THEN "" ELSE "TypeError"]
                IN  IF FirstErr(es) # "" THEN Raise(ctx, FirstErr(es))
                    ELSE ApplyAll(ctx, operation, zip(channels, params.items), cb, cast)
      [] operation = "clamp" ->
           IF params.null THEN Raise(ctx, "TypeError")
           ELSE LET es == [i \in 1..Len(params.items) |-> UnpackErr(params.items[i], 3)]
                IN  IF FirstErr(es) # "" THEN Raise(ctx, FirstErr(es))
                    \* clamp unpacks each (channel, tuple) pair into three names
                    ELSE IF zip(channels, params.items) # <<>> THEN Raise(ctx, "ValueError")
                    ELSE ctx
      [] operation = "threshold" ->
           IF params.null THEN Raise(ctx, "TypeError")
           ELSE LET es == [i \in 1..Len(params.items) |-> UnpackErr(params.items[i], 2)]
                IN  IF FirstErr(es) # "" THEN Raise(ctx, FirstErr(es))
                    \* threshold looks the tuple up as a keyword
                    ELSE IF zip(channels, params.items) # <<>>
                    THEN threshold(ctx, channels[1], TupleParam, cb)
                    ELSE ctx
      [] OTHER -> Raise(ctx, "HTTPException400")

\* files[input_name] = output_data
DictSet(files, name, val) ==
    IF \E i \in 1..Len(files) : files[i][1] = name
    THEN [i \in 1..Len(files) |-> IF files[i][1] = name THEN <<name, val>> ELSE files[i]]
    ELSE Append(files, <<name, val>>)

\* the last lines of the loop body: the saved bytes encoded
EncodeSaved(data, c2) ==
    IF c2.err # "" THEN Escapes(c2.err)
    ELSE Call_encode_output(
             <<getvalue(BytesIO(FileOf(c2.wrote[1]))),
               IF data.output_format = None THEN <<DEFAULT>> ELSE data.output_format>>)

\* the loop body after do_operation ended in c1
SaveOperated(data, c1, cb) ==
    IF c1.err = "HTTPException400" THEN HTTPException(400)
    ELSE IF c1.err # "" THEN Escapes(c1.err)
    ELSE EncodeSaved(data, save_image(c1, DEFAULT, cb))

\* the loop body after Image.open
OperateOn(data, input_handle, cb, cast) ==
    IF input_handle.err # "" THEN input_handle
    ELSE IF input_handle.val[1].mode \notin SUPPORTED_PIL_MODES THEN Escapes("ValueError")
    ELSE SaveOperated(data,
                      do_operation(NewCtx(Session(input_handle.val[1], data.auto_clamp)),
                                   data.action, data.channels, data.params, cb, cast),
                      cb)

\* the loop body after parse_file
OpenParsed(data, raw_input, cb, cast) ==
    IF raw_input.err # "" THEN raw_input
    ELSE OperateOn(data, Image_open(raw_input.val[1]), cb, cast)

\* one turn of the loop of api_operation: the data URI of one input
OperationOnInput(data, input_data, fetch, cb, cast) ==
    OpenParsed(data, parse_file(input_data, fetch), cb, cast)

RECURSIVE OperationLoop(_, _, _, _, _, _)

\* files[input_name] = output_data, and the turns that follow
StoreOutput(data, i, files, output_data, fetch, cb, cast) ==
    IF output_data.err # "" THEN output_data
    ELSE OperationLoop(data, i + 1,
                       DictSet(files, data.input.items[i].name, output_data.val[1]),
                       fetch, cb, cast)

OperationLoop(data, i, files, fetch, cb, cast) ==
    IF i > Len(data.input.items) THEN Ok(files)
    ELSE StoreOutput(data, i, files,
                     OperationOnInput(data, data.input.items[i].data, fetch, cb, cast),
                     fetch, cb, cast)

\* the response to a request that ended in r: the value returned, the
\* status of an HTTPException, or 500 for any other exception
Response(r) ==
    IF r.err = "" THEN [status |-> 200, body |-> r.val[1], err |-> ""]
    ELSE IF r.err = "HTTPException" THEN [status |-> r.status, body |-> <<>>, err |-> r.err]
    ELSE [status |-> 500, body |-> <<>>, err |-> r.err]

\* POST /operation
api_operation(data, fetch, cb, cast) ==
    IF data.input.null THEN Response(HTTPException(400))
    ELSE IF \A i \in 1..Len(SUPPORTED_OPERATIONS) : SUPPORTED_OPERATIONS[i] # data.action
    THEN Response(HTTPException(400))
    ELSE IF \E i \in 1..Len(data.channels) : data.channels[i] \notin Shorthands
    THEN Response(HTTPException(400))
    ELSE Response(OperationLoop(data, 1, <<>>, fetch, cb, cast))

\* data specs: inline images, inline bytes that are no image, an image in
\* an unsupported mode, and specs the service refuses
InlinePng(payload) == <<"data:", "image/png", ";", "base64", ",", payload>>
ValidSpecs == {InlinePng("iVBORw0rgb"), InlinePng("iVBORw0la")}
OtherSpecs ==
    {InlinePng("aGVsbG8="), InlinePng("/9j/4cmyk"),
     <<"data:", "text/plain", ";", "base64", ",", "aGVsbG8=">>,
     <<"file:", "/etc/passwd", ",", "x">>,
     <<"url", ",", "http://host/a.png">>,
     <<"iVBORw0rgb">>}

Entry(name, data) == [name |-> name, data |-> data]

ApiInputs ==
    {Null, List(<<>>)}
    \cup {List(<<Entry("a", d)>>) : d \in ValidSpecs \cup OtherSpecs}
    \cup {List(<<Entry("a", InlinePng("iVBORw0rgb")), Entry(n, InlinePng("iVBORw0la"))>>) :
              n \in {"a", "b"}}
    \cup {List(<<Entry("a", InlinePng("iVBORw0rgb")), Entry("b", <<"file:", "/etc/passwd", ",", "x">>)>>),
          List(<<Entry("a", <<"file:", "/etc/passwd", ",", "x">>), Entry("b", InlinePng("iVBORw0rgb"))>>)}

ApiActions == {"invert", "offset", "scale", "clamp", "threshold", "blur"}
ApiChannels == {<<>>, <<<<"r">>>>, <<<<"r">>, <<"h">>>>, <<<<"x">>>>}
ApiParams ==
    {Null,
     List(<<Scalar(Quarter(1)), Scalar(Quarter(2))>>),
     List(<<Tuple(<<Kw("r"), Kw("mean")>>)>>),
     List(<<Tuple(<<Kw("r"), Kw("min"), Num(Quarter(2))>>)>>)}

Operations ==
    [auto_clamp : BOOLEAN, action : ApiActions, channels : ApiChannels,
     params : ApiParams, input : ApiInputs, output_format : {None, <<RGB>>}]

\* what requests.get may answer
Responses ==
    {[status_code |-> 200, content |-> FileOf(TestImage(RGB, 0, NPix))],
     [status_code |-> 404, content |-> NoImageBytes]}

InitApi == InitSession({TestImage(RGB, 0, NPix)}, {FALSE})

\* POST /operation as one step of the service: the request, what the
\* remote server, the codec and the build answer, and the response
ApiOperation ==
    /\ api.request = None
    /\ \E data \in Operations, fetch \in Responses, cb \in ConvBytes, cast \in CastOutcomes :
          api' = [request |-> <<data>>,
                  response |-> <<api_operation(data, fetch, cb, cast)>>]
    /\ UNCHANGED <<self, last, prev, nops, loaded_image, convert_arg, cli, legacy, gui>>

NextApi == ApiOperation

SpecApi == InitApi /\ [][NextApi]_vars

(***************************************************************************)
(* POST /operations: a chain of operations on every input, against one     *)
(* session per input.                                                      *)
(***************************************************************************)
\* do_operation ended in c1: what escapes the handler, "" when nothing does
OperationFailure(c1) ==
    IF c1.err = "HTTPException400" THEN HTTPException(400) ELSE Escapes(c1.err)

\* the snapshot of an operation that names an output format: the bytes
\* save_image wrote to temp_handle, encoded by the call of line 171
EncodeSnapshot(c2, output_format) ==
    IF c2.err # "" THEN [ctx |-> c2, out |-> Escapes(c2.err)]
    ELSE [ctx |-> c2,
          out |-> Call_encode_output(<<getvalue(BytesIO(FileOf(c2.wrote[1]))),
                                       output_format>>)]

\* lines 168-172 after do_operation returned in c1: out.val holds the
\* snapshot when the operation names a format, and nothing when it does not
Snapshot(c1, op, cb) ==
    IF op.output_format = None THEN [ctx |-> c1, out |-> [err |-> "", status |-> 0, val |-> <<>>]]
    ELSE EncodeSnapshot(save_image(c1, op.output_format[1], cb), op.output_format[1])

\* one turn of the inner loop
OperationStep(c1, op, cb) ==
    IF c1.err # "" THEN [ctx |-> c1, out |-> OperationFailure(c1)]
    ELSE Snapshot(c1, op, cb)

\* lines 174-181: the final image saved and encoded
EncodeFinal(c2, output_files) ==
    IF c2.err # "" THEN Escapes(c2.err)
    ELSE Ok(Append(output_files,
                   Call_encode_output(<<BytesIO(FileOf(c2.wrote[1]))>>).val[1]))

RECURSIVE OperationsChain(_, _, _, _, _, _)

\* output_files.append(output_data), and the operations that follow
AppendSnapshot(st, ops, j, output_files, cb, cast) ==
    IF st.out.err # "" THEN st.out
    ELSE OperationsChain(st.ctx, ops, j + 1, output_files \o st.out.val, cb, cast)

\* the inner loop from operation j on, then the final save
OperationsChain(ctx, ops, j, output_files, cb, cast) ==
    IF j > Len(ops) THEN EncodeFinal(save_image(ctx, DEFAULT, cb), output_files)
    ELSE AppendSnapshot(
             OperationStep(do_operation(ctx, ops[j].action, ops[j].channels, ops[j].params,
                                        cb, cast), ops[j], cb),
             ops, j, output_files, cb, cast)

\* the outer loop body after Image.open
ChainOn(data, input_handle, cb, cast) ==
    IF input_handle.err # "" THEN input_handle
    ELSE IF input_handle.val[1].mode \notin SUPPORTED_PIL_MODES THEN Escapes("ValueError")
    ELSE OperationsChain(NewCtx(Session(input_handle.val[1], data.auto_clamp)),
                         data.operations, 1, <<>>, cb, cast)

\* the outer loop body after parse_file
ChainParsed(data, raw_input, cb, cast) ==
    IF raw_input.err # "" THEN raw_input
    ELSE ChainOn(data, Image_open(raw_input.val[1]), cb, cast)

RECURSIVE OperationsLoop(_, _, _, _, _, _)

\* files[input_name] = output_files, and the inputs that follow
StoreOutputs(data, i, files, output_files, fetch, cb, cast) ==
    IF output_files.err # "" THEN output_files
    ELSE OperationsLoop(data, i + 1,
                        DictSet(files, data.input[i].name, output_files.val[1]),
                        fetch, cb, cast)

OperationsLoop(data, i, files, fetch, cb, cast) ==
    IF i > Len(data.input) THEN Ok(files)
    ELSE StoreOutputs(data, i, files,
                      ChainParsed(data, parse_file(data.input[i].data, fetch), cb, cast),
                      fetch, cb, cast)

\* POST /operations
api_operations(data, fetch, cb, cast) ==
    Response(OperationsLoop(data, 1, <<>>, fetch, cb, cast))

\* the operations of a chain: action, channels, params and output_format
ChainOp(action, channels, params, output_format) ==
    [action |-> action, channels |-> channels, params |-> params,
     output_format |-> output_format]

ChainOps ==
    {ChainOp("invert", <<<<"r">>>>, Null, None),
     ChainOp("invert", <<<<"r">>>>, Null, <<RGB>>),
     ChainOp("invert", <<<<"h">>>>, Null, None),
     ChainOp("offset", <<<<"r">>>>, List(<<Scalar(Quarter(1))>>), None),
     ChainOp("scale", <<<<"g">>>>, List(<<Scalar(Quarter(2))>>), <<HSV>>),
     ChainOp("blur", <<<<"r">>>>, Null, None),
     ChainOp("threshold", <<<<"r">>>>, List(<<Tuple(<<Kw("r"), Kw("mean")>>)>>), None),
     ChainOp("threshold", <<<<"r">>>>, List(<<Tuple(<<Kw("r"), Kw("std")>>)>>), None),
     ChainOp("clamp", <<<<"r">>>>, List(<<Tuple(<<Kw("r"), Kw("max"), Kw("min")>>)>>), None)}

\* chains the model draws hold at most this many operations
MaxChain == 2

Chains == UNION {[1..n -> ChainOps] : n \in 0..MaxChain}

MultiInputs ==
    {<<>>,
     <<Entry("a", InlinePng("iVBORw0rgb"))>>,
     <<Entry("a", InlinePng("iVBORw0la"))>>,
     <<Entry("a", InlinePng("iVBORw0rgb")), Entry("b", InlinePng("iVBORw0la"))>>,
     <<Entry("a", <<"file:", "/etc/passwd", ",", "x">>)>>}

MultiOperations ==
    [auto_clamp : BOOLEAN, operations : Chains, input : MultiInputs,
     output_format : {<<DEFAULT>>}]

\* POST /operations as one step of the service
ApiOperations ==
    /\ api.request = None
    /\ \E data \in MultiOperations, fetch \in Responses, cb \in ConvBytes, cast \in CastOutcomes :
          api' = [request |-> <<data>>,
                  response |-> <<api_operations(data, fetch, cb, cast)>>]
    /\ UNCHANGED <<self, last, prev, nops, loaded_image, convert_arg, cli, legacy, gui>>

NextMulti == ApiOperations

SpecMulti == InitApi /\ [][NextMulti]_vars

(***************************************************************************)
(* parse_file on its own, over data specs of every shape.                  *)
(***************************************************************************)
\* what may stand before the first comma of a data spec
SpecHeads ==
    {<<"data:", "image/png", ";", "base64">>,
     <<"data:", "image/png">>,
     <<"data:", "text/plain", ";", "base64">>,
     <<"data:", "image/png", ";", "utf8">>,
     <<"file:", "/etc/passwd">>,
     <<"url">>,
     <<"url:", "http://host/a.png">>,
     <<"ftp:", "host/a.png">>,
     <<>>}

\* what may stand after a comma
SpecTails == {<<"iVBORw0rgb">>, <<"aGVsbG8=">>, <<"http://host/a.png">>, <<"x">>}

\* data specs hold at most this many commas
MaxCommas == 2

RECURSIVE WithTails(_)
\* the heads followed by n commas, each with a tail
WithTails(n) ==
    IF n = 0 THEN SpecHeads
    ELSE {d \o <<",">> \o t : d \in WithTails(n - 1), t \in SpecTails}

DataSpecs == UNION {WithTails(n) : n \in 0..MaxCommas}

\* parse_file as one step: the data spec, what the remote server answers,
\* and how parse_file ends
ParseFile ==
    /\ api.request = None
    /\ \E data \in DataSpecs, fetch \in Responses :
          api' = [request |-> <<[data |-> data, fetch |-> fetch]>>,
                  response |-> <<parse_file(data, fetch)>>]
    /\ UNCHANGED <<self, last, prev, nops, loaded_image, convert_arg, cli, legacy, gui>>

NextParse == ParseFile

SpecParse == InitApi /\ [][NextParse]_vars

(***************************************************************************)
(* The command-line front end (src/src/cli.py).  run_commands walks the    *)
(* chain: one step per command, and a last step for the final save.  cli   *)
(* holds the chain, the index pc of the next command, the image dictionary *)
(* (input_name, output_name, handle), the files on disk, the writes made   *)
(* to them, and the exception that ended the run ("" while none).          *)
(***************************************************************************)
\* the modes of SUPPORTED_PIL_MODES, spelled as the container formats are
ModeNames == {"RGB", "RGBA", "L", "LA", "HSV"}

\* load_image: the new handle and modes are bound, then the container
\* format kept from construction is looked up among the colour modes
load_image(ctx, img) ==
    IF ctx.self._image_format \notin ModeNames
    THEN Raise([ctx EXCEPT !.self._image_handle = img,
                           !.self._current_format = img.mode,
                           !.self._output_format = img.mode], "ValueError")
    ELSE [ctx EXCEPT !.self._image_handle = img,
                     !.self._current_format = img.mode,
                     !.self._output_format = img.mode]

\* set_clamp
set_clamp(s, auto_clamp) == [s EXCEPT !._auto_clamp = auto_clamp]

\* the run ended by exception e
CliRaise(st, e) == [st EXCEPT !.err = e]

\* the handle after an engine call that ended in ctx
CliAfter(st, ctx) ==
    [st EXCEPT !.handle = <<ctx.self>>, !.err = ctx.err]

\* the branch k == 'input' of run_commands, for a value v that is a name
CliInput(st, v) ==
    IF st.fs[v] = None THEN CliRaise(st, "ValueError")
    ELSE IF st.handle = None
    THEN [st EXCEPT !.input_name = <<v>>,
                    !.handle = <<set_clamp(Session(st.fs[v][1], TRUE), st.auto)>>]
    ELSE CliAfter([st EXCEPT !.input_name = <<v>>],
                  load_image(NewCtx(st.handle[1]), st.fs[v][1]))

\* the branch k == 'output'
CliOutput(st, v) == [st EXCEPT !.output_name = <<v>>]

\* the engine call of one channel flag [k, v] of a command
CliEngine(ctx, name, flag, cb) ==
    CASE name = "invert" -> invert(ctx, flag.k, cb)
      [] name = "offset" -> offset(ctx, flag.k, flag.v, cb)
      [] name = "scale" -> scale(ctx, flag.k, flag.v, cb)

\* the channel flags of a command from flag j on, up to the first exception
RECURSIVE CliFlags(_, _, _, _, _, _)
CliFlags(st, name, flags, j, cb, cast) ==
    IF j > Len(flags) \/ st.err # "" THEN st
    ELSE CliFlags(CliAfter(st, Post(CliEngine(NewCtx(st.handle[1]), name, flags[j], cb), cast)),
                  name, flags, j + 1, cb, cast)

\* the namespace of a command in the order run_commands reads it: input,
\* output, then the channel flags
CliArguments(st, cmd, cb, cast) ==
    CliFlags(
        (IF cmd.output = None THEN st ELSE CliOutput(st, cmd.output[1])),
        cmd.name, cmd.flags, 1, cb, cast)

CliNamespace(st, cmd, cb, cast) ==
    IF cmd.input = None THEN CliArguments(st, cmd, cb, cast)
    ELSE IF CliInput(st, cmd.input[1]).err # "" THEN CliInput(st, cmd.input[1])
    ELSE CliArguments(CliInput(st, cmd.input[1]), cmd, cb, cast)

\* the mode run_commands opens its output files in
OutputOpenMode == "rb"

\* open(name, mode): a mode that reads needs the file; f is the file object
Open(fs, name, mode) ==
    IF mode = "rb" /\ fs[name] = None THEN [err |-> "FileNotFoundError", name |-> name, mode |-> mode]
    ELSE [err |-> "", name |-> name, mode |-> mode]

\* the codec writing the saved image to the file object f
CodecWrite(st, f, c2) ==
    IF c2.err # "" THEN CliAfter(st, c2)
    ELSE IF f.mode = "rb" THEN CliRaise(CliAfter(st, c2), "UnsupportedOperation")
    ELSE [CliAfter(st, c2) EXCEPT !.fs[f.name] = c2.wrote,
                                  !.writes = Append(@, [name |-> f.name, image |-> c2.wrote[1],
                                                       pc |-> st.pc])]

\* with open(name, 'rb') as f: handle.save_image(f)
CliSaveOpened(st, f, cb) ==
    IF f.err # "" THEN CliRaise(st, f.err)
    ELSE CodecWrite(st, f, save_image(NewCtx(st.handle[1]), DEFAULT, cb))

CliSave(st, name, cb) == CliSaveOpened(st, Open(st.fs, name, OutputOpenMode), cb)

\* lines 146-148: the intermediate write after a command that is not the
\* last, when an output name is set
CliIntermediate(st, cb) ==
    IF st.err # "" THEN st
    ELSE IF st.output_name # None /\ st.pc # Len(st.commands) THEN CliSave(st, st.output_name[1], cb)
    ELSE st

\* one turn of the loop of run_commands
CliTurn(st, cb, cast) ==
    CliIntermediate(CliNamespace(st, st.commands[st.pc], cb, cast), cb)

\* lines 149-152: the output name defaults to the input name, and the
\* final save
CliLast(st, cb) ==
    CliSave([st EXCEPT !.output_name = IF @ = None THEN st.input_name ELSE @],
            (IF st.output_name = None THEN st.input_name ELSE st.output_name)[1], cb)

\* whether some command of the chain from pc on converts or may convert
CliDraws == ConvBytes

\* one command of the chain
CliCommand ==
    /\ cli.commands # <<>> /\ cli.err = "" /\ ~cli.done
    /\ cli.pc <= Len(cli.commands)
    /\ \E cb \in CliDraws, cast \in CastOutcomes :
          cli' = [CliTurn(cli, cb, cast) EXCEPT !.pc = @ + 1]
    /\ UNCHANGED <<self, last, prev, nops, loaded_image, convert_arg, api, legacy, gui>>

\* the final save, after the last command
CliFinish ==
    /\ cli.commands # <<>> /\ cli.err = "" /\ ~cli.done
    /\ cli.pc > Len(cli.commands)
    /\ \E cb \in CliDraws :
          cli' = [CliLast(cli, cb) EXCEPT !.done = TRUE]
    /\ UNCHANGED <<self, last, prev, nops, loaded_image, convert_arg, api, legacy, gui>>

\* the files on disk: two images, an output file that may exist, and a
\* name that no file has
CliDisks ==
    {[name \in {"in.png", "b.png", "out.png", "mid.png", "missing.png"} |->
        CASE name = "in.png" -> <<TestImage(RGB, 0, NPix)>>
          [] name = "b.png" -> <<TestImage(LA, 1, NPix)>>
          [] name = "out.png" -> IF outs THEN <<TestImage(L, 2, NPix)>> ELSE None
          [] name = "mid.png" -> IF outs THEN <<TestImage(L, 3, NPix)>> ELSE None
          [] OTHER -> None] : outs \in BOOLEAN}

\* a command as argparse hands it over: channel flags by their long names
CliCmd(name, input, output, flags) ==
    [name |-> name, input |-> input, output |-> output, flags |-> flags]

CliFlagSets ==
    {[name |-> "invert", flags |-> <<[k |-> <<"r", "e", "d">>, v |-> FZero]>>],
     [name |-> "offset", flags |-> <<[k |-> <<"h", "u", "e">>, v |-> Quarter(1)]>>]}

FirstCommands ==
    {CliCmd(f.name, <<i>>, o, f.flags) :
        f \in CliFlagSets, i \in {"in.png", "missing.png"}, o \in {None, <<"out.png">>}}

LaterCommands ==
    {CliCmd(f.name, i, o, f.flags) :
        f \in CliFlagSets, i \in {None, <<"b.png">>, <<"missing.png">>},
        o \in {None, <<"out.png">>, <<"mid.png">>}}

\* chains hold at most this many commands
MaxCommands == 2

RECURSIVE CliChains(_)
CliChains(n) ==
    IF n = 1 THEN {<<c>> : c \in FirstCommands}
    ELSE {Append(ch, c) : ch \in CliChains(n - 1), c \in LaterCommands}

\* run_commands entered: image = {input_name: None, output_name: None,
\* handle: None}
CliStart(commands, fs, auto) ==
    [commands |-> commands, pc |-> 1, input_name |-> None, output_name |-> None,
     handle |-> None, fs |-> fs, fs0 |-> fs, writes |-> <<>>, err |-> "",
     done |-> FALSE, auto |-> auto]

InitCli ==
    /\ self = Session(TestImage(RGB, 0, NPix), FALSE)
    /\ loaded_image = TestImage(RGB, 0, NPix)
    /\ last = NoCall
    /\ prev = NoCall
    /\ nops = 0
    /\ convert_arg = <<>>
    /\ api = NoRequest
    /\ legacy = NoScript
    /\ gui = NoPanel
    /\ \E n \in 1..MaxCommands :
         \E commands \in CliChains(n), fs \in CliDisks, auto \in BOOLEAN :
            cli = CliStart(commands, fs, auto)

NextCli == CliCommand \/ CliFinish

SpecCli == InitCli /\ [][NextCli]_vars

(***************************************************************************)
(* The session across image switches: transforms on channels the mode has  *)
(* and on channels it lacks, conversions, and load_image and set_handle.   *)
(***************************************************************************)
\* set_handle: as load_image, on an image already open
set_handle(ctx, image_handle) ==
    IF ctx.self._image_format \notin ModeNames
    THEN Raise([ctx EXCEPT !.self._image_handle = image_handle,
                           !.self._current_format = image_handle.mode,
                           !.self._output_format = image_handle.mode], "ValueError")
    ELSE [ctx EXCEPT !.self._image_handle = image_handle,
                     !.self._current_format = image_handle.mode,
                     !.self._output_format = image_handle.mode]

\* a call that bound the image img and ended in c1
Switched(op, img, c1) ==
    /\ self' = c1.self
    /\ last' = Record(op, <<>>, NoParam, "", img.mode, c1)
    /\ prev' = last
    /\ nops' = nops + 1
    /\ loaded_image' = img
    /\ UNCHANGED <<convert_arg, api, cli, legacy, gui>>

LoadImage(img) ==
    /\ nops < MaxOps
    /\ \E c1 \in {load_image(NewCtx(self), img)} : Switched("load_image", img, c1)

SetHandle(img) ==
    /\ nops < MaxOps
    /\ \E c1 \in {set_handle(NewCtx(self), img)} : Switched("set_handle", img, c1)

\* the images a session is switched to
SwitchImages == {TestImage(LA, 1, NPix), TestImage(RGB, 2, NPix)}

\* channels of RGB and of HSV
SessionChannels == {<<"r">>, <<"h">>}

\* clamp arguments: modes and colors the tables have and lack
SessionModes == {"min", "mid"}
SessionColors == {Kw("mean"), Kw("avg"), Num(Quarter(2))}

InitSwitch == InitSession({TestImage(RGB, 0, NPix), TestImage(LA, 1, NPix)}, BOOLEAN)

NextSwitch ==
    \/ \E channel \in SessionChannels : Invert(channel)
    \/ \E channel \in SessionChannels, mode \in SessionModes, color \in SessionColors :
          Clamp(channel, mode, color)
    \/ \E new_format \in {RGB, HSV, CMYK} : Convert(new_format)
    \/ \E img \in SwitchImages : LoadImage(img)
    \/ \E img \in SwitchImages : SetHandle(img)

SpecSwitch == InitSwitch /\ [][NextSwitch]_vars

(***************************************************************************)
(* The legacy batch tool (src/convert.py), a script that runs from top to  *)
(* bottom: it reads its arguments, validates them, and transforms and      *)
(* saves one input image after the other.  An argument is the sequence of  *)
(* its ':'-separated fields, and a field is a sequence of atoms: letters,  *)
(* the dot of a file name, or a piece of text the script never looks into. *)
(***************************************************************************)
BEFORE == 1
AFTER == BEFORE + 1
INVERT == AFTER + 1
OFFSET == INVERT + 1
MIN == OFFSET + 1
MAX == MIN + 1

H == 1
S == H + 1
V == S + 1
R == V + 1
G == R + 1
B == G + 1
A == B + 1

\* the image types RGB, RGBA and HSV of the script
TypeRGB == 1
TypeRGBA == TypeRGB + 1
TypeHSV == TypeRGBA + 1

Text(str) == <<str>>
Word(field) == <<field>>

string_to_mode ==
    (<<"i", "n", "v", "e", "r", "t">> :> INVERT) @@ (<<"o", "f", "f", "s", "e", "t">> :> OFFSET)

string_to_option ==
    (<<"b">> :> BEFORE) @@ (<<"a">> :> AFTER)
    @@ (<<"o", "f", "f", "s", "e", "t">> :> OFFSET)
    @@ (<<"m", "i", "n">> :> MIN) @@ (<<"m", "a", "x">> :> MAX)

string_to_channel ==
    (<<"h">> :> H) @@ (<<"s">> :> S) @@ (<<"v">> :> V) @@ (<<"r">> :> R)
    @@ (<<"g">> :> G) @@ (<<"b">> :> B) @@ (<<"a">> :> A)

string_to_format == ("RGB" :> TypeRGB) @@ ("RGBA" :> TypeRGBA) @@ ("HSV" :> TypeHSV)

\* float(text): the texts that are numbers, with their values
FloatTexts == (Text("0") :> FZero) @@ (Text("0.25") :> Quarter(1)) @@ (Text("0.5") :> Quarter(2))

\* Python's a | b and a & b on naturals
RECURSIVE BitOr(_, _)
BitOr(a, b) ==
    IF a = 0 THEN b ELSE IF b = 0 THEN a
    ELSE 2 * BitOr(a \div 2, b \div 2) + (IF a % 2 = 1 \/ b % 2 = 1 THEN 1 ELSE 0)

RECURSIVE BitAnd(_, _)
BitAnd(a, b) ==
    IF a = 0 \/ b = 0 THEN 0
    ELSE 2 * BitAnd(a \div 2, b \div 2) + (IF a % 2 = 1 /\ b % 2 = 1 THEN 1 ELSE 0)

\* the script ended: the exit status and what it printed last.  An
\* exception nothing catches ends the interpreter with its traceback and
\* status 1
Quit(code, msg) == [exit |-> code, msg |-> msg]
Traceback(e) == Quit(1, e)
Running == Quit(-1, "")

\* the position of the first argument equal to arg, 0 when there is none
RECURSIVE ArgIndex(_, _, _)
ArgIndex(args, arg, i) ==
    IF i > Len(args) THEN 0
    ELSE IF args[i] = arg THEN i
    ELSE ArgIndex(args, arg, i + 1)

\* list.remove(arg) at position i
RemoveAt(args, i) == SubSeq(args, 1, i - 1) \o SubSeq(args, i + 1, Len(args))

\* str.lower() of an argument
LowerArg(arg) == [i \in 1..Len(arg) |-> Lower(arg[i])]

\* a dictionary is the sequence of its [key, val] items in insertion order
RECURSIVE DictIndex(_, _, _)
DictIndex(dict, key, i) ==
    IF i > Len(dict) THEN 0
    ELSE IF dict[i].key = key THEN i
    ELSE DictIndex(dict, key, i + 1)

DictPutAt(dict, key, val, i) ==
    IF i = 0 THEN Append(dict, [key |-> key, val |-> val])
    ELSE [dict EXCEPT ![i].val = val]

\* dict[key] = val
DictPut(dict, key, val) == DictPutAt(dict, key, val, DictIndex(dict, key, 1))

\* dict[key].append(item), on a list that a miss of the key starts empty
DictAppendAt(dict, key, item, i) ==
    IF i = 0 THEN Append(dict, [key |-> key, val |-> <<item>>])
    ELSE [dict EXCEPT ![i].val = Append(@, item)]

DictAppend(dict, key, item) == DictAppendAt(dict, key, item, DictIndex(dict, key, 1))

\* whether item is in dict[key], on a list that a miss of the key starts empty
InListAt(dict, item, i) == i # 0 /\ \E j \in 1..Len(dict[i].val) : dict[i].val[j] = item
InList(dict, key, item) == InListAt(dict, item, DictIndex(dict, key, 1))

\* lines 157-176: the sub-mode, from channel letter index on; a result is
\* [end, dict]
ChannelsDone(end, dict) == [end |-> end, dict |-> dict]

RECURSIVE CheckChannels(_, _, _, _)
CheckChannels(letters, values, index, dict) ==
    IF index > Len(letters)
    THEN (IF letters = <<>> THEN ChannelsDone(Traceback("NameError"), dict)
          ELSE ChannelsDone(Running, dict))
    ELSE IF <<letters[index]>> \notin DOMAIN string_to_channel
    THEN ChannelsDone(Quit(1, "Invalid Channel"), dict)
    ELSE IF index > Len(values) THEN ChannelsDone(Traceback("IndexError"), dict)
    ELSE IF values[index] \notin DOMAIN FloatTexts
    THEN ChannelsDone((IF index = 1 THEN Traceback("NameError")
                       ELSE Quit(1, "Invalid value")), dict)
    ELSE CheckChannels(letters, values, index + 1,
                       DictPut(dict, string_to_channel[<<letters[index]>>],
                               FloatTexts[values[index]]))

\* lines 159-160: the split of the sub-mode at its colons
SubMode(arg) ==
    IF Len(arg) < 2 THEN ChannelsDone(Traceback("ValueError"), <<>>)
    ELSE CheckChannels(arg[1], Tail(arg), 1, <<>>)

\* lines 199-215 for an option whose strings passed the checks
StoreOption(dict, option, channel, text) ==
    IF text \notin DOMAIN FloatTexts THEN ChannelsDone(Quit(1, "Invalid Option Value"), dict)
    ELSE IF InList(dict, option, <<channel, FloatTexts[text]>>)
    THEN ChannelsDone(Quit(1, "Duplicated Option"), dict)
    ELSE ChannelsDone(Running, DictAppend(dict, option, <<channel, FloatTexts[text]>>))

\* the composite key of an option: option_time | option_operation
OptionKey(option_time, option_operation) == BitOr(option_time, option_operation)

\* lines 181-215 for one option
CheckOption(dict, arg) ==
    IF Len(arg) # 2 THEN ChannelsDone(Quit(1, "Malformed Option Input"), dict)
    ELSE IF Len(arg[1]) < 2 THEN ChannelsDone(Traceback("IndexError"), dict)
    ELSE IF <<arg[1][1]>> \notin DOMAIN string_to_channel
    THEN ChannelsDone(Quit(1, "Invalid Channel"), dict)
    ELSE IF <<arg[1][2]>> \notin DOMAIN string_to_option
    THEN ChannelsDone(Quit(1, "Invalid Option Time"), dict)
    ELSE IF SubSeq(arg[1], 3, Len(arg[1])) \notin DOMAIN string_to_option
    THEN ChannelsDone(Quit(1, "Invalid Option Method"), dict)
    ELSE StoreOption(dict,
                     OptionKey(string_to_option[<<arg[1][2]>>],
                               string_to_option[SubSeq(arg[1], 3, Len(arg[1]))]),
                     string_to_channel[<<arg[1][1]>>], arg[2])

\* lines 179-216: the options in turn, up to the first that ends the script
RECURSIVE CheckOptions(_, _, _)
CheckOptions(res, args, i) ==
    IF i > Len(args) \/ res.end # Running THEN res
    ELSE CheckOptions(CheckOption(res.dict, args[i]), args, i + 1)

\* whether a file name has a dot
HasDot(name) == \E i \in 1..Len(name) : name[i] = "."

\* lines 224-259 for one image argument, on the disk fs
CheckImage(dict, arg, fs) ==
    IF Len(arg) # 2 THEN ChannelsDone(Quit(1, "You forgot the colon"), dict)
    ELSE IF ~HasDot(arg[1]) \/ ~HasDot(arg[2])
    THEN ChannelsDone(Quit(1, "Malformed Image Name"), dict)
    ELSE IF fs[arg[1]] = None THEN ChannelsDone(Quit(1, "Image not found"), dict)
    ELSE IF fs[arg[1]][1].mode \notin DOMAIN string_to_format
    THEN ChannelsDone(Quit(1, "invalid format"), dict)
    ELSE IF InList(dict, arg[1], arg[2]) THEN ChannelsDone(Quit(1, "Duplicated Image"), dict)
    ELSE ChannelsDone(Running, DictAppend(dict, arg[1], arg[2]))

\* lines 222-261: the images in turn; the del of the loop variable fails
\* when there was no image
RECURSIVE CheckImages(_, _, _, _)
CheckImages(res, args, i, fs) ==
    IF res.end # Running THEN res
    ELSE IF i > Len(args)
    THEN (IF args = <<>> THEN ChannelsDone(Traceback("NameError"), res.dict) ELSE res)
    ELSE CheckImages(CheckImage(res.dict, args[i], fs), args, i + 1, fs)

\* the arguments that print the help text, and the flag of debug messages
HelpArgs == {Word(Text("h")), Word(Text("-h"))}
DebugArg == Word(Text("-d"))
CommaArg == Word(Text(","))

\* the editor the script builds from valid arguments (lines 510-514)
NoEditor == [mode |-> 0, channels |-> <<>>, options |-> <<>>, images |-> <<>>]

Ended(end) == [end |-> end, editor |-> NoEditor]

\* lines 260 and 510-514, after lines 222-259 ended in im
ValidateImages(input_mode, input_channels, input_options, im) ==
    IF im.end # Running THEN Ended(im.end)
    ELSE [end |-> Running,
          editor |-> [mode |-> input_mode, channels |-> input_channels,
                      options |-> input_options, images |-> im.dict]]

\* lines 216-222, after lines 179-215 ended in op
ValidateOptions(input_mode, input_channels, op, input_images, fs) ==
    IF op.end # Running THEN Ended(op.end)
    ELSE ValidateImages(input_mode, input_channels, op.dict,
                        CheckImages(ChannelsDone(Running, <<>>), input_images, 1, fs))

\* lines 172-179, after lines 157-171 ended in ch
ValidateChannels(input_mode, ch, input_options, input_images, fs) ==
    IF ch.end # Running THEN Ended(ch.end)
    ELSE ValidateOptions(input_mode, ch.dict,
                         CheckOptions(ChannelsDone(Running, <<>>), input_options, 1),
                         input_images, fs)

\* lines 148-153: the mode
ValidateMode(input_mode, input_channels, input_options, input_images, fs) ==
    IF Len(input_mode) # 1 \/ input_mode[1] \notin DOMAIN string_to_mode
    THEN Ended(Quit(1, "Invalid Mode"))
    ELSE ValidateChannels(string_to_mode[input_mode[1]], SubMode(input_channels),
                          input_options, input_images, fs)

\* lines 136-146, with the comma at position comma of the arguments (0 when
\* there is none)
SplitArgs(args, comma, fs) ==
    ValidateMode(LowerArg(args[1]), LowerArg(args[2]),
                 (IF comma > 0 THEN [i \in 1..(comma - 3) |-> LowerArg(args[i + 2])] ELSE <<>>),
                 (IF comma > 0 THEN SubSeq(args, comma + 1, Len(args))
                  ELSE SubSeq(args, 3, Len(args))),
                 fs)

\* lines 130-136, on the arguments without the debug flag
ReadArgs(args, fs) ==
    IF Len(args) < 2 THEN Ended(Traceback("ValueError"))
    ELSE SplitArgs(args, ArgIndex(args, CommaArg, 3), fs)

\* lines 55-58: argv.remove('-d')
RemoveDebug(args, i) == IF i = 0 THEN args ELSE RemoveAt(args, i)

\* lines 50-263: the script up to the construction of the editor, on the
\* arguments after the script's name
Validate(args, fs) ==
    IF args = <<>> \/ \E i \in 1..Len(args) : args[i] \in HelpArgs
    THEN Ended(Quit(0, "help"))
    ELSE ReadArgs(RemoveDebug(args, ArgIndex(args, DebugArg, 1)), fs)

\* get_colorspace
get_colorspace(channel) ==
    IF channel \in {R, G, B, A} THEN TypeRGBA
    ELSE IF channel \in {H, S, V} THEN TypeHSV
    ELSE 0

\* colorspace_transitions: the function of each defined transition
colorspace_transitions ==
    (TypeRGB :> (TypeHSV :> "hsv_colorspace_in_rgb"))
    @@ (TypeRGBA :> (TypeHSV :> "hsv_colorspace_in_rgba"))
    @@ (TypeHSV :> (TypeRGBA :> "rgba_colorspace_in_hsv"))

\* normalize_colorspace: how many components the normalized pixel has
NormalizedLen(current_format) == IF current_format = TypeHSV THEN 3 ELSE 4

\* how many components a transition function hands to the conversion it
\* starts with, for a pixel of n components, and how many that conversion
\* takes
ConversionArgs(via, n) ==
    CASE via = "hsv_colorspace_in_rgb" -> [given |-> n, taken |-> 3]
      [] via = "hsv_colorspace_in_rgba" -> [given |-> 3, taken |-> 3]
      [] via = "rgba_colorspace_in_hsv" -> [given |-> n, taken |-> 3]

\* the value methods: what each does with the operand list and the value
ValueMethodFails(value_method) == value_method \in {"min_clamp_value", "max_clamp_value"}

\* colorspace: the function the pixel goes through, or the exception
colorspace(current_format, space, n) ==
    IF current_format = space THEN [err |-> "", via |-> "same_colorspace"]
    ELSE IF current_format \notin DOMAIN colorspace_transitions
    THEN [err |-> "NotImplementedException", via |-> ""]
    ELSE IF space \notin DOMAIN colorspace_transitions[current_format]
    THEN [err |-> "NotImplementedException", via |-> ""]
    ELSE IF ConversionArgs(colorspace_transitions[current_format][space], n).given
            # ConversionArgs(colorspace_transitions[current_format][space], n).taken
    THEN [err |-> "TypeError", via |-> colorspace_transitions[current_format][space]]
    ELSE [err |-> "", via |-> colorspace_transitions[current_format][space]]

\* perform_operation: the value method of an operation or option key
ValueMethod(operation) ==
    IF BitAnd(operation, OFFSET) = OFFSET THEN "offset_value"
    ELSE IF BitAnd(operation, INVERT) = INVERT THEN "invert_value"
    ELSE IF BitAnd(operation, MIN) = MIN THEN "min_clamp_value"
    ELSE IF BitAnd(operation, MAX) = MAX THEN "max_clamp_value"
    ELSE "NotImplementedException"

\* transform_pixels on an image that went through cs: the image records
\* what was done to its pixels
PixelsTransformed(st, phase, value_method, channel, value, cs) ==
    IF cs.err # "" THEN [st EXCEPT !.err = cs.err]
    ELSE IF ValueMethodFails(value_method) THEN [st EXCEPT !.err = "TypeError"]
    ELSE [st EXCEPT !.image.hist =
             Append(@, [phase |-> phase, method |-> value_method, channel |-> channel,
                        value |-> value, via |-> cs.via])]

\* perform_operation in st = [image, current_format, err]
perform_operation(st, phase, operation, channel, value) ==
    IF st.err # "" THEN st
    ELSE IF ValueMethod(operation) = "NotImplementedException"
    THEN [st EXCEPT !.err = "NotImplementedException"]
    ELSE IF get_colorspace(channel) = 0 THEN [st EXCEPT !.err = "NotImplementedException"]
    ELSE PixelsTransformed(st, phase, ValueMethod(operation), channel, value,
                      colorspace(st.current_format, get_colorspace(channel),
                                 NormalizedLen(st.current_format)))

\* the (channel, value) pairs of one option key, from pair j on
RECURSIVE PerformList(_, _, _, _, _)
PerformList(st, phase, option, list, j) ==
    IF j > Len(list) THEN st
    ELSE PerformList(perform_operation(st, phase, option, list[j][1], list[j][2]),
                     phase, option, list, j + 1)

\* perform_pre_operations and perform_post_operations: the options whose
\* key has all the bits of mask, from option i on
RECURSIVE PerformOptions(_, _, _, _, _)
PerformOptions(st, phase, options, mask, i) ==
    IF i > Len(options) THEN st
    ELSE IF BitAnd(options[i].key, mask) # mask
    THEN PerformOptions(st, phase, options, mask, i + 1)
    ELSE PerformOptions(PerformList(st, phase, options[i].key, options[i].val, 1),
                        phase, options, mask, i + 1)

perform_pre_operations(st, options) == PerformOptions(st, "pre", options, B, 1)
perform_post_operations(st, options) == PerformOptions(st, "post", options, A, 1)

\* perform_operations: the mode on every channel of the sub-mode
RECURSIVE perform_operations(_, _, _, _)
perform_operations(st, mode, channels, i) ==
    IF i > Len(channels) THEN st
    ELSE perform_operations(perform_operation(st, "mode", mode, channels[i].key, channels[i].val),
                            mode, channels, i + 1)

\* lines 297-301: the image opened and its type looked up
Loaded(img) ==
    [image |-> img, current_format |-> string_to_format[img.mode], err |-> ""]

\* lines 303-305
RunOperations(st, editor) ==
    perform_post_operations(
        perform_operations(perform_pre_operations(st, editor.options),
                           editor.mode, editor.channels, 1),
        editor.options)

\* the file type of a name: what follows its first dot
FileType(name) == SubSeq(name, IndexOf(name, <<".">>) + 1, Len(name))

\* whether the codec of a file type writes images of a mode
CodecWrites(type, mode) ==
    \/ type = <<"png">> /\ mode \in {"RGB", "RGBA"}
    \/ type = <<"jpg">> /\ mode = "RGB"

\* lines 309-311: the image saved to each output name, from name j on
RECURSIVE SaveAll(_, _, _, _, _)
SaveAll(lg, input, image, outputs, j) ==
    IF j > Len(outputs) THEN lg
    ELSE IF ~CodecWrites(FileType(outputs[j]), image.mode)
    THEN [lg EXCEPT !.end = Traceback("OSError")]
    ELSE SaveAll([lg EXCEPT !.fs[outputs[j]] = <<image>>,
                            !.saves = Append(@, [input |-> input, output |-> outputs[j],
                                                 image |-> image])],
                 input, image, outputs, j + 1)

\* one turn of the loop of transform_images, after the operations ended in st
TransformedImage(lg, item, st) ==
    IF st.err # "" THEN [lg EXCEPT !.end = Traceback(st.err), !.current_image = <<st.image>>]
    ELSE SaveAll([lg EXCEPT !.pc = @ + 1, !.current_image = <<st.image>>],
                 item.key, st.image, item.val, 1)

transform_image(lg, item) ==
    TransformedImage(lg, item, RunOperations(Loaded(lg.fs[item.key][1]), lg.editor))

\* the script started on its arguments args, with the files fs on disk
LegacyStart(args, fs) ==
    [args |-> args, fs |-> fs, fs0 |-> fs, phase |-> "input", end |-> Running,
     editor |-> NoEditor, pc |-> 1, current_image |-> None, saves |-> <<>>]

\* lines 50-263 and 510-519: the input part of the script
LegacyValidate ==
    /\ legacy.phase = "input"
    /\ \E res \in {Validate(legacy.args, legacy.fs)} :
          legacy' = [legacy EXCEPT !.end = res.end, !.editor = res.editor,
                                   !.phase = IF res.end = Running THEN "output" ELSE "over"]
    /\ UNCHANGED <<self, last, prev, nops, loaded_image, convert_arg, api, cli, gui>>

\* one turn of the loop of transform_images
LegacyTransform ==
    /\ legacy.phase = "output"
    /\ legacy.pc <= Len(legacy.editor.images)
    /\ \E lg \in {transform_image(legacy, legacy.editor.images[legacy.pc])} :
          legacy' = [lg EXCEPT !.phase = IF lg.end = Running THEN "output" ELSE "over"]
    /\ UNCHANGED <<self, last, prev, nops, loaded_image, convert_arg, api, cli, gui>>

\* lines 523-524: the end of the script
LegacyQuit ==
    /\ legacy.phase = "output"
    /\ legacy.pc > Len(legacy.editor.images)
    /\ legacy' = [legacy EXCEPT !.end = Quit(0, "All Images Processed."), !.phase = "over"]
    /\ UNCHANGED <<self, last, prev, nops, loaded_image, convert_arg, api, cli, gui>>

\* file names, and the files on disk: images of the three accepted types
\* and of a type the script rejects
FileName(base, type) == <<base, ".", type>>

LegacyNames ==
    {FileName(base, "png") : base \in {"a", "b", "c", "l", "x", "y", "missing"}}
    \cup {<<"a">>, FileName("x", "jpg")}

LegacyImage(mode) == [mode |-> mode, hist |-> <<>>]

LegacyDisk ==
    [name \in LegacyNames |->
        CASE name = FileName("a", "png") -> <<LegacyImage("RGBA")>>
          [] name = FileName("b", "png") -> <<LegacyImage("RGB")>>
          [] name = FileName("c", "png") -> <<LegacyImage("HSV")>>
          [] name = FileName("l", "png") -> <<LegacyImage("L")>>
          [] OTHER -> None]

\* the first two arguments
ModeArgs == {Word(<<"i", "n", "v", "e", "r", "t">>), Word(<<"O", "f", "f", "s", "e", "t">>),
             Word(<<"b", "l", "u", "r">>)}

SubModeArgs ==
    {<<<<"r">>, Text("0")>>, <<<<"H">>, Text("0.25")>>, <<<<"g", "s">>, Text("0"), Text("0.5")>>,
     <<<<"x">>, Text("0")>>, <<<<"r">>, Text("x")>>, <<<<"r", "g">>, Text("0.5"), Text("x")>>,
     <<<<"r">>>>, <<<<"r", "g">>, Text("0")>>, <<<<>>, Text("0")>>}

\* an option argument: the channel letter, the time letter and the words
\* of the operation, and the value
Option(channel, time, operation, text) == <<<<channel, time>> \o operation, Text(text)>>

OptionWords ==
    {<<"o", "f", "f", "s", "e", "t">>, <<"m", "i", "n">>, <<"m", "a", "x">>}

GoodOptions ==
    {Option("r", time, operation, "0.5") : time \in {"b", "a"}, operation \in OptionWords}

BadOptions ==
    {Option("r", "b", <<"b">>, "0.5"), Option("r", "a", <<"i", "n", "v", "e", "r", "t">>, "0.5"),
     Option("x", "b", <<"m", "i", "n">>, "0.5"), Option("r", "c", <<"m", "i", "n">>, "0.5"),
     Option("r", "b", <<"m", "i", "n">>, "x"), <<<<"r", "b", "m", "i", "n">>>>, <<<<"r">>, Text("0.5")>>}

\* option lists hold at most this many options
MaxOptions == 2

\* the lists of n options of the grammar
RECURSIVE GoodLists(_)
GoodLists(n) ==
    IF n = 0 THEN {<<>>}
    ELSE {Append(list, o) : list \in GoodLists(n - 1), o \in GoodOptions}

OptionLists ==
    {<<o>> : o \in BadOptions} \cup UNION {GoodLists(n) : n \in 0..MaxOptions}

ImageArg(input, output) == <<input, output>>

ImageLists ==
    {<<>>,
     <<ImageArg(FileName("a", "png"), FileName("x", "png"))>>,
     <<ImageArg(FileName("a", "png"), FileName("x", "png")),
       ImageArg(FileName("a", "png"), FileName("x", "png"))>>,
     <<ImageArg(FileName("a", "png"), FileName("x", "png")),
       ImageArg(FileName("a", "png"), FileName("y", "png"))>>,
     <<ImageArg(FileName("a", "png"), FileName("x", "png")),
       ImageArg(FileName("b", "png"), FileName("y", "png"))>>,
     <<ImageArg(FileName("b", "png"), FileName("x", "png"))>>,
     <<ImageArg(FileName("c", "png"), FileName("x", "png"))>>,
     <<ImageArg(FileName("a", "png"), FileName("x", "jpg"))>>,
     <<ImageArg(FileName("l", "png"), FileName("x", "png"))>>,
     <<ImageArg(FileName("missing", "png"), FileName("x", "png"))>>,
     <<ImageArg(FileName("a", "png"), FileName("x", "png")),
       ImageArg(FileName("missing", "png"), FileName("y", "png"))>>,
     <<<<FileName("a", "png")>>>>,
     <<ImageArg(<<"a">>, FileName("x", "png"))>>}

\* the command lines: mode, sub-mode, options, the comma when there are
\* options, images; and the lines with a flag
CommandLine(mode, submode, options, images) ==
    <<mode, submode>> \o options \o (IF options = <<>> THEN <<>> ELSE <<CommaArg>>) \o images

CommandLines ==
    {CommandLine(mode, submode, options, images) :
        mode \in ModeArgs, submode \in SubModeArgs, options \in {<<>>}, images \in ImageLists}
    \cup {CommandLine(Word(<<"i", "n", "v", "e", "r", "t">>), <<<<"r">>, Text("0")>>, options, images) :
            options \in OptionLists, images \in ImageLists}
    \cup {<<>>, <<Word(Text("-h"))>>, <<DebugArg>>,
          <<Word(<<"i", "n", "v", "e", "r", "t">>)>>,
          <<Word(<<"i", "n", "v", "e", "r", "t">>), <<<<"h">>, Text("0")>>, Word(Text("h"))>>,
          <<DebugArg, Word(<<"i", "n", "v", "e", "r", "t">>), <<<<"r">>, Text("0")>>,
            ImageArg(FileName("a", "png"), FileName("x", "png"))>>}

InitLegacy ==
    /\ self = Session(TestImage(RGB, 0, NPix), FALSE)
    /\ loaded_image = TestImage(RGB, 0, NPix)
    /\ last = NoCall
    /\ prev = NoCall
    /\ nops = 0
    /\ convert_arg = <<>>
    /\ api = NoRequest
    /\ cli = NoChain
    /\ gui = NoPanel
    /\ \E args \in CommandLines : legacy = LegacyStart(args, LegacyDisk)

NextLegacy == LegacyValidate \/ LegacyTransform \/ LegacyQuit

SpecLegacy == InitLegacy /\ [][NextLegacy]_vars

(***************************************************************************)
(* The browser control panel (src/gui).  The page is a tree of components; *)
(* the callbacks read and write properties of the components with the ids  *)
(* input-photos, output-photos, modification-list, upload-data,            *)
(* clear-input, clear-modifications, apply-modifications, auto-clamp and   *)
(* modification-error.  A children property is null, one component, or a   *)
(* list of components: the callbacks return all three shapes.  A name is   *)
(* a sequence of characters.                                                *)
(***************************************************************************)
NoValue == [kind |-> "null", items |-> <<>>]
Component(c) == [kind |-> "component", items |-> <<c>>]
Children(items) == [kind |-> "list", items |-> items]

\* the value of a widget: null while nothing is selected or entered
Value(v) == [kind |-> "value", items |-> <<v>>]

\* length of a children property as the browser's script reads it:
\* undefined on a single component
Undefined == -1
Length(children) ==
    IF children.kind = "list" THEN Len(children.items) ELSE Undefined

\* the upload control, the first entry of the input gallery
UploadControl(className) ==
    [type |-> "Upload", className |-> className, name |-> <<>>, src |-> ""]

\* the entry of a photo: an image and a remove button that carries the name
PhotoBox(name, content) ==
    [type |-> "Div", className |-> "photo-box", name |-> name, src |-> content]

\* the heading that stands for an empty output gallery
Nothing ==
    [type |-> "H2", className |-> "", name |-> <<>>, src |-> "Nothing to Show"]

NoMessage == [ixm |-> -1, text |-> ""]
Message(ixm, text) == [ixm |-> ixm, text |-> text]

\* clear-input style: hidden while the gallery is a list of one entry
ClearInputStyle(children) ==
    IF children.kind = "null" THEN "no_update"
    ELSE IF Length(children) # Undefined /\ Length(children) = 1 THEN "none"
    ELSE "block"

\* clear-modifications disabled: while the list is null or empty
ClearModificationsDisabled(children) ==
    \/ children.kind = "null"
    \/ Length(children) # Undefined /\ Length(children) = 0

\* apply-modifications disabled
ApplyDisabled(photos, modifications) ==
    IF photos.kind = "null" \/ modifications.kind = "null" THEN TRUE
    ELSE \/ Length(photos) # Undefined /\ Length(photos) <= 1
         \/ Length(modifications) # Undefined /\ Length(modifications) = 0

\* the callbacks that have input-photos or modification-list as an input
\* run again after a callback has written one of the two
Rendered(g) ==
    [g EXCEPT
       !.clear_input_style =
           IF ClearInputStyle(g.input_photos) = "no_update" THEN @
           ELSE ClearInputStyle(g.input_photos),
       !.clear_modifications_disabled =
           ClearModificationsDisabled(g.modification_list),
       !.apply_disabled = ApplyDisabled(g.input_photos, g.modification_list)]

\* the page as the layout builds it, before any callback has run
Layout(auto_clamp) ==
    [page |-> "open",
     input_photos |-> Children(<<UploadControl("upload")>>),
     output_photos |-> Component(Nothing),
     modification_list |-> Children(<<>>),
     filename |-> NoValue,
     clear_input_style |-> "none",
     clear_modifications_disabled |-> TRUE,
     apply_disabled |-> TRUE,
     auto_clamp |-> auto_clamp,
     modification_error |-> NoMessage,
     calls |-> 0]

\* a callback that raised or returned no_update writes nothing
Shown(g, calls) == gui' = [g EXCEPT !.calls = calls]

\* the files of one upload become entries after the ones there are
Boxes(files) == [i \in 1..Len(files) |-> PhotoBox(files[i].name, files[i].content)]

\* the upload callback: files is null or the list the user dropped
UploadData(g, files) ==
    IF files.kind = "null" \/ Len(files.items) = 0 THEN g
    ELSE IF g.input_photos.kind # "list" THEN g
    ELSE Rendered([g EXCEPT
             !.input_photos =
                 Children(<<UploadControl("small-upload")>>
                          \o Tail(g.input_photos.items) \o Boxes(files.items)),
             !.filename = NoValue])

\* the clear-input callback
ClearInputClicked(g) ==
    IF g.input_photos.kind # "list" THEN g
    ELSE Rendered([g EXCEPT
             !.input_photos = Component(UploadControl("upload")),
             !.output_photos = Component(Nothing)])

\* the id of a remove button as the page writes it in prop_id: the keys
\* in order and the name as a JSON string, then the property
Stringify(name, i) ==
    IF name[i] = "\"" THEN <<"\\", "\"">>
    ELSE IF name[i] = "\\" THEN <<"\\", "\\">>
    ELSE <<name[i]>>

RECURSIVE StringifyFrom(_, _)
StringifyFrom(name, i) ==
    IF i > Len(name) THEN <<>>
    ELSE Stringify(name, i) \o StringifyFrom(name, i + 1)

PropId(name) ==
    <<"{", "\"", "t", "y", "p", "e", "\"", ":", "\"", "p", "h", "o", "t", "o",
      "-", "r", "e", "m", "o", "v", "e", "\"", ",", "\"", "v", "a", "l", "u",
      "e", "\"", ":", "\"">>
    \o StringifyFrom(name, 1)
    \o <<"\"", "}", ".", "n", "_", "c", "l", "i", "c", "k", "s">>

\* prop_id.substring(32, prop_id.length - 11)
PhotoId(prop_id) == SubSeq(prop_id, 33, Len(prop_id) - 11)

\* the first index from ix on whose entry carries photo_id, or 0
RECURSIVE FindPhoto(_, _, _)
FindPhoto(items, photo_id, ix) ==
    IF ix > Len(items) THEN 0
    ELSE IF items[ix].name = photo_id THEN ix
    ELSE FindPhoto(items, photo_id, ix + 1)

\* splice(ix, 1) at the first match, then break
Spliced(items, photo_id, from) ==
    IF FindPhoto(items, photo_id, from) = 0 THEN items
    ELSE RemoveAt(items, FindPhoto(items, photo_id, from))

\* Restored leaving the upload control as it is
Restored_Small(items) == items

\* the upload control back at full size once it is the only entry
Restored(items) ==
    IF Len(items) = 1 THEN <<UploadControl("upload")>> ELSE items

\* a children property after the loop over it: the loop over a single
\* component runs no turn
SplicedIn(children, photo_id, from) ==
    IF children.kind # "list" THEN children
    ELSE Children(Spliced(children.items, photo_id, from))

RestoredIn(children) ==
    IF children.kind # "list" THEN children
    ELSE Children(Restored(children.items))

\* the photo-remove callback on a click of the button that carries name
PhotoRemove(g, name) ==
    IF g.input_photos.kind = "null" \/ g.output_photos.kind = "null" THEN g
    ELSE Rendered([g EXCEPT
             !.input_photos =
                 RestoredIn(SplicedIn(g.input_photos, PhotoId(PropId(name)), 2)),
             !.output_photos =
                 SplicedIn(g.output_photos, PhotoId(PropId(name)), 1)])

\* a new row as its template builds it: nothing selected, nothing entered
ModificationRow(name, output) ==
    [action |-> name,
     channels |-> <<NoValue, NoValue, NoValue, NoValue>>,
     keyword |-> NoValue,
     select |-> NoValue,
     value |-> NoValue,
     output |-> output]

\* add_modification
add_modification(g, name, output) ==
    Rendered([g EXCEPT
        !.modification_list =
            Children((IF g.modification_list.kind = "null" THEN <<>>
                      ELSE g.modification_list.items)
                     \o <<ModificationRow(name, output)>>)])

\* the clear-modifications callback
ClearModificationsClicked(g) ==
    Rendered([g EXCEPT !.modification_list = Children(<<>>)])

\* the callback of a row's output button
ModificationOutput(current) ==
    IF current = "Output" THEN "No Output" ELSE "Output"

\* the auto-clamp callback
AutoClamp(current) ==
    IF current = "Auto Clamp ON" THEN "Auto Clamp OFF" ELSE "Auto Clamp ON"

\* the channels of a row: the checked options of its four groups, lowered
RECURSIVE RowChannels(_, _)
RowChannels(m, ix) ==
    IF ix > 4 THEN <<>>
    ELSE (IF m.channels[ix].kind = "null" THEN <<>>
          ELSE Lower(m.channels[ix].items))
         \o RowChannels(m, ix + 1)

NumericRows ==
    {<<"o","f","f","s","e","t">>, <<"s","c","a","l","e">>,
     <<"t","h","r","e","s","h","o","l","d">>}

RowName(m) == Lower(m.action)

\* the message after row ixm, given the message before it
RowMessage(m, ixm, message) ==
    IF Len(RowChannels(m, 1)) = 0
    THEN Message(ixm, "Must select 1 or more channels")
    ELSE IF /\ RowName(m) \in NumericRows
            /\ message = NoMessage
            /\ (m.select.kind = "null" \/ m.value.kind = "null")
    THEN Message(ixm, "Must select a value or enter a value or both")
    ELSE IF /\ RowName(m) = <<"c","l","a","m","p">>
            /\ message = NoMessage
            /\ m.keyword.kind = "null"
    THEN Message(ixm, "Must select a valid clamp type")
    ELSE message

RECURSIVE RowMessages(_, _, _)
RowMessages(modifications, ixm, message) ==
    IF ixm >= Len(modifications) THEN message
    ELSE RowMessages(modifications, ixm + 1,
                     RowMessage(modifications[ixm + 1], ixm, message))

\* the output_format of each operation of the request
OutputFormats(modifications) ==
    [i \in 1..Len(modifications) |->
        IF modifications[i].output = "Output" THEN "default" ELSE "None"]

\* the names of the input list in the order of their first entry
RECURSIVE InputNames(_, _, _)
InputNames(photos, ix, names) ==
    IF ix > Len(photos) THEN names
    ELSE InputNames(photos, ix + 1,
                    IF \E k \in 1..Len(names) : names[k] = photos[ix].name
                    THEN names ELSE Append(names, photos[ix].name))

\* the results the service returns for one input: one per operation with
\* an output format, then the final image
ResultCount(modifications) ==
    1 + Cardinality({i \in 1..Len(modifications) :
                        OutputFormats(modifications)[i] # "None"})

ResultSrc == <<"result:1", "result:2", "result:3", "result:4">>

\* the output gallery of a response: every result of every name
RECURSIVE OutputPhotos(_, _, _, _)
OutputPhotos(names, count, i, k) ==
    IF i > Len(names) THEN <<>>
    ELSE IF k > count THEN OutputPhotos(names, count, i + 1, 1)
    ELSE <<PhotoBox(names[i], ResultSrc[k])>> \o OutputPhotos(names, count, i, k + 1)

\* apply_modifications after a click; answered says whether call_api
\* returned a response
apply_modifications(g, answered) ==
    IF g.input_photos.kind # "list" \/ g.modification_list.kind # "list"
    THEN [g EXCEPT !.calls = 0]
    ELSE IF RowMessages(g.modification_list.items, 0, NoMessage) # NoMessage
    THEN [g EXCEPT !.output_photos = Component(Nothing),
                   !.modification_error =
                       RowMessages(g.modification_list.items, 0, NoMessage),
                   !.calls = 0]
    ELSE IF ~answered
    THEN [g EXCEPT !.output_photos = Component(Nothing),
                   !.modification_error =
                       Message(-1, "The server failed to generate the output"),
                   !.calls = 1]
    ELSE [g EXCEPT !.output_photos =
                       Children(OutputPhotos(
                           InputNames(Tail(g.input_photos.items), 1, <<>>),
                           ResultCount(g.modification_list.items), 1, 1)),
                   !.modification_error = NoMessage,
                   !.calls = 1]

\* the names that have a remove button on the page
Buttons(g) ==
    {g.input_photos.items[i].name : i \in 2..Len(g.input_photos.items)}
    \cup (IF g.output_photos.kind = "list"
          THEN {g.output_photos.items[i].name : i \in 1..Len(g.output_photos.items)}
          ELSE {})

\* photos in the input gallery
Photos(g) ==
    IF g.input_photos.kind = "list" THEN Len(g.input_photos.items) - 1 ELSE 0

MaxPhotos == 2
MaxRows == 2
MaxMods == 1

\* the events of the page
Upload(files) ==
    /\ gui.page = "open"
    /\ Photos(gui) + Len(files.items) <= MaxPhotos
    /\ gui' = [UploadData([gui EXCEPT !.filename =
                               IF files.kind = "null" THEN NoValue
                               ELSE Children([i \in 1..Len(files.items) |->
                                                 files.items[i].name])],
                          files)
               EXCEPT !.calls = 0]
    /\ UNCHANGED <<self, last, prev, nops, loaded_image, convert_arg, api, cli, legacy>>

ClearInput ==
    /\ gui.page = "open"
    /\ gui.clear_input_style = "block"
    /\ Shown(ClearInputClicked(gui), 0)
    /\ UNCHANGED <<self, last, prev, nops, loaded_image, convert_arg, api, cli, legacy>>

RemovePhoto(name) ==
    /\ gui.page = "open"
    /\ name \in Buttons(gui)
    /\ Shown(PhotoRemove(gui, name), 0)
    /\ UNCHANGED <<self, last, prev, nops, loaded_image, convert_arg, api, cli, legacy>>

AddModification(name, limit) ==
    /\ gui.page = "open"
    /\ Length(gui.modification_list) < limit
    /\ Shown(add_modification(gui, name, "No Output"), 0)
    /\ UNCHANGED <<self, last, prev, nops, loaded_image, convert_arg, api, cli, legacy>>

ClearModifications ==
    /\ gui.page = "open"
    /\ ~gui.clear_modifications_disabled
    /\ Shown(ClearModificationsClicked(gui), 0)
    /\ UNCHANGED <<self, last, prev, nops, loaded_image, convert_arg, api, cli, legacy>>

ToggleOutput(i) ==
    /\ gui.page = "open"
    /\ gui.modification_list.kind = "list"
    /\ i \in 1..Len(gui.modification_list.items)
    /\ Shown([gui EXCEPT !.modification_list.items[i].output =
                             ModificationOutput(@)], 0)
    /\ UNCHANGED <<self, last, prev, nops, loaded_image, convert_arg, api, cli, legacy>>

ToggleAutoClamp ==
    /\ gui.page = "open"
    /\ Shown([gui EXCEPT !.auto_clamp = AutoClamp(@)], 0)
    /\ UNCHANGED <<self, last, prev, nops, loaded_image, convert_arg, api, cli, legacy>>

\* the user fills the widgets of row i
EditRow(i, widgets) ==
    /\ gui.page = "open"
    /\ gui.modification_list.kind = "list"
    /\ i \in 1..Len(gui.modification_list.items)
    /\ Shown([gui EXCEPT
                !.modification_list.items[i].channels = widgets.channels,
                !.modification_list.items[i].select =
                    IF RowName(gui.modification_list.items[i]) = <<"i","n","v","e","r","t">>
                    THEN NoValue ELSE widgets.select,
                !.modification_list.items[i].value =
                    IF RowName(gui.modification_list.items[i]) = <<"i","n","v","e","r","t">>
                    THEN NoValue ELSE widgets.value,
                !.modification_list.items[i].keyword =
                    IF RowName(gui.modification_list.items[i]) = <<"c","l","a","m","p">>
                    THEN widgets.keyword ELSE NoValue], 0)
    /\ gui' # gui
    /\ UNCHANGED <<self, last, prev, nops, loaded_image, convert_arg, api, cli, legacy>>

Apply ==
    /\ gui.page = "open"
    /\ ~gui.apply_disabled
    /\ \E answered \in BOOLEAN : gui' = apply_modifications(gui, answered)
    /\ UNCHANGED <<self, last, prev, nops, loaded_image, convert_arg, api, cli, legacy>>

\* the files a user uploads
FileA == [name |-> <<"a">>, content |-> "data:1"]
FileQ == [name |-> <<"q", "\"">>, content |-> "data:2"]
Files == {FileA, FileQ}

Uploads ==
    {NoValue, Children(<<>>)}
    \cup {Children(<<f>>) : f \in Files}
    \cup {Children(<<FileA, FileQ>>)}

\* the names of the add-modification menu
Actions ==
    {<<"I","n","v","e","r","t">>, <<"O","f","f","s","e","t">>,
     <<"C","l","a","m","p">>, <<"S","c","a","l","e">>,
     <<"T","h","r","e","s","h","o","l","d">>}

NoChannels == <<NoValue, NoValue, NoValue, NoValue>>
Unchecked == <<Children(<<>>), NoValue, NoValue, Children(<<>>)>>
Checked == <<Children(<<"R">>), NoValue, NoValue, Children(<<>>)>>

Widgets(channels, keyword, select, value) ==
    [channels |-> channels, keyword |-> keyword, select |-> select, value |-> value]

\* a row filled in full
Filled == Widgets(Checked, Value("Min"), Value("mean"), Value("0.5"))

\* the ways a user fills a row
RowWidgets ==
    {Widgets(ch, kw, w[1], w[2]) :
        ch \in {Unchecked, Checked},
        kw \in {NoValue, Value("Min")},
        w \in {<<NoValue, NoValue>>, <<NoValue, Value("0.5")>>, <<Value("mean"), NoValue>>,
               <<Value("mean"), Value("0.5")>>}}

InitGui ==
    /\ self = Session(TestImage(RGB, 0, NPix), FALSE)
    /\ loaded_image = TestImage(RGB, 0, NPix)
    /\ last = NoCall
    /\ prev = NoCall
    /\ nops = 0
    /\ convert_arg = <<>>
    /\ api = NoRequest
    /\ cli = NoChain
    /\ legacy = NoScript
    /\ gui = Rendered(Layout("Auto Clamp ON"))

\* the galleries: every event, rows filled in full or not at all
NextGui ==
    \/ \E files \in Uploads : Upload(files)
    \/ ClearInput
    \/ \E name \in {f.name : f \in Files} : RemovePhoto(name)
    \/ \E name \in Actions : AddModification(name, MaxMods)
    \/ ClearModifications
    \/ \E i \in 1..MaxMods : ToggleOutput(i)
    \/ \E i \in 1..MaxMods : EditRow(i, Filled)
    \/ Apply

SpecGui == InitGui /\ [][NextGui]_vars

\* the apply button: one input photo, rows filled every way
NextApply ==
    \/ Upload(Children(<<FileA>>))
    \/ \E name \in Actions : AddModification(name, MaxRows)
    \/ \E i \in 1..MaxRows, widgets \in RowWidgets : EditRow(i, widgets)
    \/ ToggleAutoClamp
    \/ Apply

SpecApply == InitGui /\ [][NextApply]_vars

(***************************************************************************)
(* Properties of the core engine.                                          *)
(***************************************************************************)
TransformOps == {"invert", "offset", "scale", "threshold", "clamp"}

\* the last call is a transform that returned
Transformed == last.op \in TransformOps /\ last.outcome = "ok"

\* the normalized value of a stored byte
Normalized(b) == FDivNat(FFromNat(b), 255)

\* C1: in a session with auto-clamp, every number a transform hands to
\* _set_channel lies in [0, 1], so that the cast to a byte is defined and the
\* stored byte is a byte of 0..255 that no wrap-around produced
C1_AutoClampInvariant ==
    (Transformed /\ last.auto_clamp) =>
        /\ \A i \in 1..Len(last.range) : last.range[i] = "unit"
        /\ Len(last.range) = Len(last.read)
        /\ ~last.ub
        /\ \A i \in 1..Len(last.stored) : last.stored[i] \in 0..255
        /\ self._loaded_channels[IndexOf(self._current_format, last.c)] = last.stored

\* a second call whose result left [0, 1] before the clamp: a scale by -1
\* of a plane that is not all zero
C1_Witness ==
    /\ Transformed /\ last.auto_clamp
    /\ prev.op \in TransformOps /\ prev.outcome = "ok"
    /\ last.op = "scale" /\ last.param = Num(Quarter(-4))
    /\ \E i \in 1..Len(last.read) : last.read[i] > 0

\* C2: clamp with the literal number 0.5 returns and bounds the plane: every
\* value is <= 0.5 after mode 'min' and >= 0.5 after mode 'max'
C2_ClampLiteral ==
    (last.op = "clamp" /\ last.param = Num(Quarter(2)) /\ last.cmode \in SUPPORTED_CLAMP_MODES) =>
        /\ last.outcome = "ok"
        /\ \A i \in 1..Len(last.stored) :
              IF last.cmode = "min"
              THEN FCmp(Normalized(last.stored[i]), Quarter(2)) <= 0
              ELSE FCmp(Normalized(last.stored[i]), Quarter(2)) >= 0

\* C3: threshold with a literal number t uses t itself: the call returns and
\* every element x of the plane becomes 0 if x < t and 1 otherwise
C3_ThresholdLiteral ==
    (last.op = "threshold" /\ last.param.kind = "num") =>
        /\ last.outcome = "ok"
        /\ last.color = last.param.num
        /\ last.stored =
              [i \in 1..Len(last.read) |->
                  IF FCmp(Normalized(last.read[i]), last.param.num) < 0 THEN 0 ELSE 255]

\* two invert calls in a row on the same channel, the second without a
\* conversion: prev.read is the plane before the first
InvertedTwice ==
    /\ prev.op = "invert" /\ prev.outcome = "ok"
    /\ last.op = "invert" /\ last.outcome = "ok"
    /\ last.c = prev.c /\ last.nconv = 0

\* C4 as stated: inverting a channel twice leaves the stored plane equal to
\* the original plane, for every byte
C4_InvertInvolution == InvertedTwice => last.stored = prev.read

\* C4, amended: inverting a channel twice leaves every stored byte within
\* one quantization step of the original byte, and one invert stores 255 - b
\* or one less
C4_InvertWithinOneStep ==
    /\ (last.op = "invert" /\ last.outcome = "ok") =>
          \A i \in 1..Len(last.read) :
              last.stored[i] \in {255 - last.read[i], 254 - last.read[i]} \cap 0..255
    /\ InvertedTwice =>
          \A i \in 1..Len(prev.read) :
              /\ last.stored[i] - prev.read[i] <= 1
              /\ prev.read[i] - last.stored[i] <= 1

\* a byte that two inverts moved up by one
C4_Witness ==
    InvertedTwice /\ \E i \in 1..Len(prev.read) : last.stored[i] = prev.read[i] + 1

\* two threshold calls in a row on the same channel that resolved the same
\* scalar, the second without a conversion
ThresholdTwice ==
    /\ prev.op = "threshold" /\ prev.outcome = "ok"
    /\ last.op = "threshold" /\ last.outcome = "ok"
    /\ last.c = prev.c /\ last.nconv = 0
    /\ last.color = prev.color

\* C5: a threshold stores only 0 and 1 (bytes 0 and 255), and a second
\* threshold with the same resolved scalar stores the plane the first stored
C5_ThresholdIdempotent ==
    /\ (last.op = "threshold" /\ last.outcome = "ok") =>
          \A i \in 1..Len(last.stored) : last.stored[i] \in {0, 255}
    /\ ThresholdTwice =>
          /\ last.read = prev.stored
          /\ last.stored = prev.stored

\* a second threshold with the same scalar after a first that changed the
\* plane
C5_Witness == ThresholdTwice /\ prev.stored # prev.read

\* the byte b + 255k/4 rounded down and kept within 0..255
OffsetStored(b, k) ==
    LET e == (4 * b + 255 * k) \div 4
    IN  IF e < 0 THEN 0 ELSE IF e > 255 THEN 255 ELSE e

\* C6: with auto-clamp, offset by y stores min(1, max(0, x + y)) truncated
\* to a byte; red 0.40 (byte 102) offset by 0.25 is stored as 0.65 (byte
\* 165), and a further offset of 0.50 as 1.0 (byte 255), with no undefined
\* cast
C6_OffsetTruncates ==
    /\ (last.op = "offset" /\ last.outcome = "ok" /\ last.auto_clamp) =>
          /\ ~last.ub
          /\ \A k \in OffsetQuarters :
                last.param = Num(Quarter(k)) =>
                    last.stored = [i \in 1..Len(last.read) |-> OffsetStored(last.read[i], k)]
          /\ (last.param = Num(Quarter(1)) /\ last.read[1] = 102) => last.stored[1] = 165
    /\ (/\ prev.op = "offset" /\ prev.outcome = "ok" /\ prev.auto_clamp
        /\ prev.param = Num(Quarter(1)) /\ prev.read[1] = 102
        /\ last.op = "offset" /\ last.outcome = "ok" /\ last.c = prev.c
        /\ last.param = Num(Quarter(2))) =>
          /\ last.read[1] = 165
          /\ last.stored[1] = 255

\* red 102 offset by 0.25 and then by 0.50, with auto-clamp
C6_Witness ==
    /\ prev.op = "offset" /\ prev.outcome = "ok" /\ prev.auto_clamp
    /\ prev.param = Num(Quarter(1)) /\ prev.read[1] = 102 /\ prev.c = <<"R">>
    /\ last.op = "offset" /\ last.outcome = "ok" /\ last.c = prev.c
    /\ last.param = Num(Quarter(2)) /\ last.stored[1] = 255

\* whether entry j of the table of a mode is the first that lists K
FirstListing(mode, K, j) ==
    /\ K \in FormatTable[mode][j][2]
    /\ \A h \in 1..(j - 1) : K \notin FormatTable[mode][h][2]

\* C7: _pre leaves the mode when it holds the channel, converts to the
\* first mode the table lists for the channel otherwise, after which the
\* mode holds the channel, and raises ValueError without a conversion when
\* no entry lists it; a name that is no channel name raises the lookup
\* error of line 227 before the table is read
C7_ModeConversionClosure ==
    /\ self._current_format \in SUPPORTED_PIL_MODES
    /\ last.op \in TransformOps =>
          IF ~HasShorthand(last.channel)
          THEN last.outcome = "KeyError" /\ last.nconv = 0
               /\ self._current_format = last.mode0
          ELSE LET K == Upper(Shorthand(last.channel))
                   tbl == FormatTable[last.mode0]
               IN  IF Contains(last.mode0, K)
                   THEN last.nconv = 0 /\ self._current_format = last.mode0
                   ELSE IF \E j \in 1..Len(tbl) : K \in tbl[j][2]
                   THEN /\ last.nconv = 1
                        /\ \E j \in 1..Len(tbl) :
                              FirstListing(last.mode0, K, j) /\ self._current_format = tbl[j][1]
                        /\ Contains(self._current_format, K)
                        /\ last.c = K
                   ELSE /\ last.outcome = "ValueError"
                        /\ last.nconv = 0
                        /\ self._current_format = last.mode0

\* a call that no entry serves, then one that converts HSV to LA
C7_Witness ==
    /\ prev.op = "invert" /\ prev.channel = <<"x">> /\ prev.outcome = "ValueError"
    /\ last.op = "invert" /\ last.channel = <<"l">> /\ last.mode0 = HSV
    /\ last.nconv = 1 /\ self._current_format = LA

\* C8: save_image('default') as the first call of a session converts
\* nothing, merges nothing and hands the codec the loaded pixel data in the
\* loaded mode
C8_RoundTripSave ==
    (nops = 1 /\ last.op = "save_image" /\ last.fmt = DEFAULT) =>
        /\ last.outcome = "ok"
        /\ last.nconv = 0
        /\ ~last.merged
        /\ last.wrote = <<loaded_image>>
        /\ self._current_format = loaded_image.mode
        /\ self._image_handle = loaded_image

\* an RGBA image saved right after construction
C8_Witness ==
    /\ nops = 1 /\ last.op = "save_image" /\ last.fmt = DEFAULT
    /\ last.wrote # None /\ loaded_image.mode = RGBA

\* the desired output mode: the mode of the last convert() that returned,
\* or the loaded mode
Desired == IF convert_arg = <<>> THEN loaded_image.mode ELSE convert_arg[1]

\* C9: save_image('default') returns, writes the image in the desired
\* output mode and leaves the session in that mode
C9_DefaultSavesDesiredMode ==
    /\ self._output_format = Desired
    /\ (last.op = "save_image" /\ last.fmt = DEFAULT) =>
          /\ last.outcome = "ok"
          /\ last.wrote # None
          /\ last.wrote[1].mode = Desired
          /\ Len(last.wrote[1].planes) = Len(Desired)
          /\ self._current_format = Desired

\* a default save after a convert() to another mode than the loaded one
C9_Witness ==
    /\ prev.op = "convert" /\ prev.outcome = "ok" /\ prev.fmt # loaded_image.mode
    /\ last.op = "save_image" /\ last.fmt = DEFAULT
    /\ last.wrote # None /\ last.wrote[1].mode = prev.fmt

(***************************************************************************)
(* Properties of the HTTP service.                                         *)
(***************************************************************************)
\* the request in hand names a supported action and supported channels and
\* lists inline images in supported modes
ValidOperation ==
    /\ api.request # None
    /\ \E i \in 1..Len(SUPPORTED_OPERATIONS) : SUPPORTED_OPERATIONS[i] = api.request[1].action
    /\ \A i \in 1..Len(api.request[1].channels) : api.request[1].channels[i] \in Shorthands
    /\ ~api.request[1].input.null
    /\ \A i \in 1..Len(api.request[1].input.items) :
          api.request[1].input.items[i].data \in ValidSpecs

\* C10: POST /operation with a supported action, supported channels and
\* valid inline images answers 200 with a mapping that has exactly one
\* entry per input name, each one data URI that begins
\* 'data:image/png;base64,'
C10_OperationReturnsOnePerInput ==
    ValidOperation =>
        LET items == api.request[1].input.items
            body  == api.response[1].body
        IN  /\ api.response[1].status = 200
            /\ {body[i][1] : i \in 1..Len(body)} = {items[i].name : i \in 1..Len(items)}
            /\ \A i, j \in 1..Len(body) : body[i][1] = body[j][1] => i = j
            /\ \A i \in 1..Len(body) : body[i][2][1] = "data:image/png;base64,"

\* the request in hand is a chain of supported invert, offset and scale
\* operations with well-formed parameters on inline images in supported
\* modes
ValidChain ==
    /\ api.request # None
    /\ \A j \in 1..Len(api.request[1].operations) :
          api.request[1].operations[j].action \in {"invert", "offset", "scale"}
    /\ \A i \in 1..Len(api.request[1].input) : api.request[1].input[i].data \in ValidSpecs

\* how many of the first n operations name an output format
RECURSIVE SnapshotCount(_, _)
SnapshotCount(ops, n) ==
    IF n = 0 THEN 0
    ELSE SnapshotCount(ops, n - 1) + (IF ops[n].output_format = None THEN 0 ELSE 1)

\* C11: POST /operations answers 200 with, for every input name, a list of
\* data URIs: one snapshot for every operation that names an output format
\* and the final image last, so that its length is the number of those
\* operations plus one
C11_OperationsReturnSnapshots ==
    ValidChain =>
        LET ops   == api.request[1].operations
            items == api.request[1].input
            body  == api.response[1].body
        IN  /\ api.response[1].status = 200
            /\ {body[i][1] : i \in 1..Len(body)} = {items[i].name : i \in 1..Len(items)}
            /\ \A i \in 1..Len(body) :
                  /\ Len(body[i][2]) = SnapshotCount(ops, Len(ops)) + 1
                  /\ \A k \in 1..Len(body[i][2]) : body[i][2][k][1] = "data:image/png;base64,"

\* the type prefix of a data spec: what stands before its first comma
TypePrefix(data) == SubSeq(data, 1, FirstComma(data) - 1)

\* a request that parse_file has answered
Parsed == api.request # None

C13_ParseEndsInStatus ==
    Parsed =>
        \/ api.response[1].err = ""
        \/ api.response[1] = HTTPException(403)
        \/ api.response[1] = HTTPException(400)
        \/ /\ api.request[1].fetch.status_code # 200
           /\ api.response[1] = HTTPException(api.request[1].fetch.status_code)

\* C14: a spec 'url:<address>,<payload>' is fetched: the body of a 200
\* answer is returned, and another answer is raised with the remote status
C14_UrlSpecFetched ==
    (/\ Parsed
     /\ Cardinality(Commas(api.request[1].data)) = 1
     /\ FirstComma(api.request[1].data) > 1
     /\ TypePrefix(api.request[1].data)[1] = "url:") =>
        IF api.request[1].fetch.status_code = 200
        THEN api.response[1] = Ok(api.request[1].fetch.content)
        ELSE api.response[1] = HTTPException(api.request[1].fetch.status_code)

\* the request in hand names a supported action and supported channels, and
\* lists a valid inline image along with an input that fails
MixedOperation ==
    /\ api.request # None
    /\ \E i \in 1..Len(SUPPORTED_OPERATIONS) : SUPPORTED_OPERATIONS[i] = api.request[1].action
    /\ \A i \in 1..Len(api.request[1].channels) : api.request[1].channels[i] \in Shorthands
    /\ ~api.request[1].input.null
    /\ \E i \in 1..Len(api.request[1].input.items) :
          api.request[1].input.items[i].data \in ValidSpecs
    /\ \E i \in 1..Len(api.request[1].input.items) :
          api.request[1].input.items[i].data \notin ValidSpecs

\* C15: in POST /operation an input that fails leaves the other inputs of
\* the request unaffected: the response still holds a result for every
\* valid input
C15_FailureIsolated ==
    MixedOperation =>
        LET items == api.request[1].input.items
            body  == api.response[1].body
        IN  \A i \in 1..Len(items) :
               items[i].data \in ValidSpecs =>
                   \E k \in 1..Len(body) : body[k][1] = items[i].name

(***************************************************************************)
(* Properties of the command-line front end.                               *)
(***************************************************************************)
\* the commands of the chain that have run
Ran == 1..(IF cli.pc - 1 < Len(cli.commands) THEN cli.pc - 1 ELSE Len(cli.commands))

\* the chain names one input, in its first command, and the file exists
OneInput ==
    /\ cli.commands # <<>>
    /\ cli.fs0[cli.commands[1].input[1]] # None
    /\ \A i \in 2..Len(cli.commands) : cli.commands[i].input = None

\* the output name the last -o of the commands up to i gives, None when
\* none of them has one
RECURSIVE OutputUpTo(_)
OutputUpTo(i) ==
    IF i = 0 THEN None
    ELSE IF cli.commands[i].output # None THEN cli.commands[i].output
    ELSE OutputUpTo(i - 1)

\* the run wrote to the file name while command i was the last to have run
Wrote(name, i) ==
    \E w \in 1..Len(cli.writes) : cli.writes[w].name = name /\ cli.writes[w].pc = i + 1

\* C16: a chain on one existing input runs to its end without an error;
\* every command before the last that has run with an output name set has
\* written the image to that name, and once the run is over the image has
\* been written to the name of the last -o, or to the input name when no
\* command has one.
C16_ChainWritesOutputs ==
    OneInput =>
        /\ cli.err = ""
        /\ \A i \in Ran :
              (i < Len(cli.commands) /\ cli.commands[i].output # None)
                  => Wrote(cli.commands[i].output[1], i)
        /\ cli.done =>
              Wrote((IF OutputUpTo(Len(cli.commands)) = None
                     THEN cli.commands[1].input
                     ELSE OutputUpTo(Len(cli.commands)))[1], Len(cli.commands))

\* C17: the run ends in a ValueError only when a command names an input
\* file that does not exist; after a later command with -i of an existing
\* image has run without an error, the session holds that image's mode and
\* the input name is that file.
C17_LaterInputSwitches ==
    cli.commands # <<>> =>
        /\ cli.err = "ValueError" =>
              \E i \in 1..Len(cli.commands) :
                  /\ cli.commands[i].input # None
                  /\ cli.fs0[cli.commands[i].input[1]] = None
        /\ \A i \in Ran :
              (i > 1 /\ i = cli.pc - 1 /\ cli.err = "" /\ cli.commands[i].input # None)
                  => cli.input_name = cli.commands[i].input

(***************************************************************************)
(* Properties of the legacy batch tool.                                    *)
(***************************************************************************)
\* the option arguments of the command line, in lower case
OptionArgs ==
    IF ArgIndex(legacy.args, CommaArg, 3) = 0 THEN <<>>
    ELSE [i \in 1..(ArgIndex(legacy.args, CommaArg, 3) - 3) |-> LowerArg(legacy.args[i + 2])]

\* what an option argument of the grammar names
NamedChannel(arg) == string_to_channel[<<arg[1][1]>>]
NamedTime(arg) == arg[1][2]
NamedOperation(arg) == SubSeq(arg[1], 3, Len(arg[1]))
NamedValue(arg) == FloatTexts[arg[2]]
NamedMethod(arg) ==
    CASE NamedOperation(arg) = <<"o", "f", "f", "s", "e", "t">> -> "offset_value"
      [] NamedOperation(arg) = <<"m", "i", "n">> -> "min_clamp_value"
      [] NamedOperation(arg) = <<"m", "a", "x">> -> "max_clamp_value"

\* how many of the option arguments name the operation, channel and value
\* of arg at the given time
Given(arg, time) ==
    Cardinality({i \in 1..Len(OptionArgs) :
                    /\ NamedTime(OptionArgs[i]) = time
                    /\ NamedOperation(OptionArgs[i]) = NamedOperation(arg)
                    /\ NamedChannel(OptionArgs[i]) = NamedChannel(arg)
                    /\ NamedValue(OptionArgs[i]) = NamedValue(arg)})

\* how often the history of an image holds, in a phase, the operation,
\* channel and value of arg
Applied(hist, arg, phase) ==
    Cardinality({i \in 1..Len(hist) :
                    /\ hist[i].phase = phase
                    /\ hist[i].method = NamedMethod(arg)
                    /\ hist[i].channel = NamedChannel(arg)
                    /\ hist[i].value = NamedValue(arg)})

PhaseRank(phase) == CASE phase = "pre" -> 1 [] phase = "mode" -> 2 [] phase = "post" -> 3

\* the command line is one of the grammar: its options name offset, min or max
OptionsOfGrammar ==
    \A i \in 1..Len(OptionArgs) : NamedOperation(OptionArgs[i]) \in OptionWords

\* C18: every image the legacy tool has saved went through the options
\* given with time 'before', each once and with the operation it names,
\* then through the mode's operation once for every channel of the
\* sub-mode, then through the options given with time 'after', each once
\* and with the operation it names; no 'before' option was applied after
\* the mode's operation and no 'after' option before it.
C18_LegacyExecutionOrder ==
    (legacy.phase \in {"output", "over"} /\ OptionsOfGrammar) =>
        \A k \in 1..Len(legacy.saves) :
            /\ \A i \in 1..Len(OptionArgs) :
                  /\ Applied(legacy.saves[k].image.hist, OptionArgs[i], "pre")
                        = Given(OptionArgs[i], "b")
                  /\ Applied(legacy.saves[k].image.hist, OptionArgs[i], "post")
                        = Given(OptionArgs[i], "a")
            /\ \A c \in 1..Len(legacy.editor.channels) :
                  Cardinality({i \in 1..Len(legacy.saves[k].image.hist) :
                                  /\ legacy.saves[k].image.hist[i].phase = "mode"
                                  /\ legacy.saves[k].image.hist[i].channel
                                        = legacy.editor.channels[c].key}) = 1
            /\ \A i, j \in 1..Len(legacy.saves[k].image.hist) :
                  i < j => PhaseRank(legacy.saves[k].image.hist[i].phase)
                              <= PhaseRank(legacy.saves[k].image.hist[j].phase)

\* an option argument that the grammar does not allow: not two fields, no
\* channel letter, a time other than b and a, an operation other than
\* offset, min and max, or a value that is no number
InvalidOption(arg) ==
    \/ Len(arg) # 2
    \/ Len(arg[1]) < 3
    \/ <<arg[1][1]>> \notin DOMAIN string_to_channel
    \/ arg[1][2] \notin {"b", "a"}
    \/ SubSeq(arg[1], 3, Len(arg[1])) \notin OptionWords
    \/ arg[2] \notin DOMAIN FloatTexts

\* an image argument that the grammar does not allow
InvalidImage(arg) ==
    \/ Len(arg) # 2
    \/ legacy.fs0[arg[1]] = None
    \/ legacy.fs0[arg[1]][1].mode \notin {"RGB", "RGBA", "HSV"}

\* the image arguments of the command line
ImageArgs ==
    IF ArgIndex(legacy.args, CommaArg, 3) = 0 THEN SubSeq(legacy.args, 3, Len(legacy.args))
    ELSE SubSeq(legacy.args, ArgIndex(legacy.args, CommaArg, 3) + 1, Len(legacy.args))

\* the command line has no flag, and an option or an image that the
\* grammar does not allow, or the same image argument twice
InvalidArguments ==
    /\ Len(legacy.args) >= 2
    /\ \A i \in 1..Len(legacy.args) : legacy.args[i] \notin HelpArgs \cup {DebugArg}
    /\ \/ \E i \in 1..Len(OptionArgs) : InvalidOption(OptionArgs[i])
       \/ \E i \in 1..Len(ImageArgs) : InvalidImage(ImageArgs[i])
       \/ \E i, j \in 1..Len(ImageArgs) : i < j /\ ImageArgs[i] = ImageArgs[j]

\* C19: once the input part of the legacy tool has run on a command line
\* with an invalid option or image argument or a repeated image argument,
\* the run is over with exit code 1 and a message and nothing has been
\* transformed or saved; and no image is saved before validation is
\* complete.
C19_ValidationFailureTerminates ==
    /\ (legacy.phase \in {"output", "over"} /\ InvalidArguments) =>
          /\ legacy.phase = "over"
          /\ legacy.end.exit = 1
          /\ legacy.end.msg # ""
          /\ legacy.saves = <<>>
          /\ legacy.current_image = None
    /\ (legacy.phase = "input") => (legacy.saves = <<>> /\ legacy.current_image = None)

\* the colorspace of a channel: RGBA for r, g, b, a and HSV for h, s, v
SpaceOf(channel) == IF channel \in {R, G, B, A} THEN "RGBA" ELSE "HSV"

\* the conversions the transition table defines
DefinedConversions == {<<"RGB", "HSV">>, <<"RGBA", "HSV">>, <<"HSV", "RGBA">>}

\* the first image has gone through a run of one channel and no option
OneOperation ==
    /\ legacy.phase \in {"output", "over"}
    /\ legacy.editor.options = <<>>
    /\ Len(legacy.editor.channels) = 1
    /\ Len(legacy.editor.images) = 1
    /\ legacy.current_image # None

\* C20: a channel operation of the legacy tool goes through without a
\* transition when the image's type is the channel's colorspace, goes
\* through by the defined conversion for RGB->HSV, RGBA->HSV and HSV->RGBA,
\* and ends in NotImplementedException for every other pair.
C20_ColorspaceTransitions ==
    OneOperation =>
        IF legacy.current_image[1].mode = SpaceOf(legacy.editor.channels[1].key)
        THEN /\ Len(legacy.current_image[1].hist) = 1
             /\ legacy.current_image[1].hist[1].via = "same_colorspace"
        ELSE IF <<legacy.current_image[1].mode, SpaceOf(legacy.editor.channels[1].key)>>
                    \in DefinedConversions
        THEN /\ Len(legacy.current_image[1].hist) = 1
             /\ legacy.current_image[1].hist[1].via
                   = colorspace_transitions[string_to_format[legacy.current_image[1].mode]]
                                           [get_colorspace(legacy.editor.channels[1].key)]
        ELSE legacy.end = Traceback("NotImplementedException")

\* the run ended in an exception while transform_images was at work
FailedInExecution ==
    /\ legacy.phase = "over"
    /\ legacy.editor # NoEditor
    /\ legacy.end.exit = 1

\* C21: when the legacy tool fails while it processes an input image, no
\* output file of any input image of the batch has been written: the disk
\* is as it was when the run began.
C21_NoPartialResults ==
    FailedInExecution => (legacy.saves = <<>> /\ legacy.fs = legacy.fs0)

\* the composite key the script computes for an option argument
KeyOf(arg) ==
    OptionKey(string_to_option[<<NamedTime(arg)>>], string_to_option[NamedOperation(arg)])

\* the option arguments are all of the grammar
ValidOptions ==
    /\ legacy.phase \in {"output", "over"}
    /\ Len(legacy.args) >= 2
    /\ \A i \in 1..Len(legacy.args) : legacy.args[i] \notin HelpArgs \cup {DebugArg}
    /\ \A i \in 1..Len(OptionArgs) : ~InvalidOption(OptionArgs[i])

\* C28: two options of a command line that differ in timing or in
\* operation never have the same composite key, and the script rejects an
\* option as duplicated only when the same timing, operation, channel and
\* value were given before.
C28_OptionKeysUnique ==
    ValidOptions =>
        /\ \A i, j \in 1..Len(OptionArgs) :
              (\/ NamedTime(OptionArgs[i]) # NamedTime(OptionArgs[j])
               \/ NamedOperation(OptionArgs[i]) # NamedOperation(OptionArgs[j]))
                  => KeyOf(OptionArgs[i]) # KeyOf(OptionArgs[j])
        /\ legacy.end.msg = "Duplicated Option" =>
              \E i, j \in 1..Len(OptionArgs) : i < j /\ OptionArgs[i] = OptionArgs[j]

(***************************************************************************)
(* Keyword parameters through the HTTP service.                            *)
(***************************************************************************)
\* the request in hand is a chain of threshold and clamp operations on
\* inline images in supported modes, each with one parameter tuple that
\* ends in one of the six keywords
KeywordChain ==
    /\ api.request # None
    /\ api.request[1].operations # <<>>
    /\ \A j \in 1..Len(api.request[1].operations) :
          /\ api.request[1].operations[j].action \in {"threshold", "clamp"}
          /\ api.request[1].operations[j].output_format = None
          /\ ~api.request[1].operations[j].params.null
          /\ \A i \in 1..Len(api.request[1].operations[j].params.items) :
                /\ ~api.request[1].operations[j].params.items[i].scalar
                /\ IsKeyword(api.request[1].operations[j].params.items[i].parts[
                       Len(api.request[1].operations[j].params.items[i].parts)])
    /\ api.request[1].input # <<>>
    /\ \A i \in 1..Len(api.request[1].input) : api.request[1].input[i].data \in ValidSpecs

\* C25: a threshold or clamp operation whose parameter is one of the six
\* keywords mean, median, min, max, sum, std is accepted by do_operation:
\* the request is answered 200 with a result for every input.
C25_KeywordsAccepted ==
    KeywordChain =>
        /\ api.response[1].status = 200
        /\ Len(api.response[1].body) = Len(api.request[1].input)

(***************************************************************************)
(* Properties of the session: its cache and what a call leaves alone.      *)
(***************************************************************************)
\* the planes of a session: the cache when there is one, the image's
\* planes when there is none
PlanesOf(s) == IF s._loaded_channels = None THEN s._image_handle.planes ELSE s._loaded_channels

\* C26: after load_image, set_handle and a conversion the cache of split
\* planes is empty, and a cache that is not empty holds one plane for every
\* channel of the current mode, which is the mode of the bound image.
C26_CacheFollowsImage ==
    /\ (\/ last.op \in {"load_image", "set_handle"}
        \/ (last.op = "convert" /\ last.outcome = "ok")) => self._loaded_channels = None
    /\ self._loaded_channels # None =>
          /\ Len(self._loaded_channels) = Len(self._current_format)
          /\ self._image_handle.mode = self._current_format

\* the call just made was a transform on a channel of the mode it began in
PresentChannelCall ==
    /\ nops' = nops + 1
    /\ last'.op \in TransformOps
    /\ HasShorthand(last'.channel)
    /\ Contains(self._current_format, Upper(Shorthand(last'.channel)))

\* C29: a transform on a channel of the current mode changes at most that
\* channel's plane: the other planes, the image, the current mode, the
\* output mode and the auto-clamp flag are as before the call.
C29_TransformFrame ==
    [][PresentChannelCall =>
          /\ self'._current_format = self._current_format
          /\ self'._output_format = self._output_format
          /\ self'._auto_clamp = self._auto_clamp
          /\ self'._image_handle = self._image_handle
          /\ \A i \in 1..Len(self._current_format) :
                i # IndexOf(self._current_format, Upper(Shorthand(last'.channel)))
                    => PlanesOf(self')[i] = PlanesOf(self)[i]]_vars

\* a transform on the red channel has stored a plane other than the one it
\* read
C29_Witness ==
    /\ last.op \in TransformOps /\ last.outcome = "ok"
    /\ last.channel = Red
    /\ self._loaded_channels # None
    /\ self._loaded_channels[1] # last.read
    /\ self._loaded_channels[2] = loaded_image.planes[2]

\* the call just made was a clamp with a mode or a color that the tables
\* lack, on a channel that has a shorthand
InvalidClampCall ==
    /\ nops' = nops + 1
    /\ last'.op = "clamp"
    /\ HasShorthand(last'.channel)
    /\ (last'.cmode \notin SUPPORTED_CLAMP_MODES \/ ~IsKeyword(last'.param))

\* C30: a clamp with an unrecognized mode or keyword ends in ValueError and
\* leaves the session as it was: the current mode, the planes and the image
\* are unchanged, whether or not the channel is in the current mode.
C30_FailedClampLeavesSession ==
    [][InvalidClampCall =>
          /\ last'.outcome = "ValueError"
          /\ self'._current_format = self._current_format
          /\ self'._image_handle = self._image_handle
          /\ PlanesOf(self') = PlanesOf(self)]_vars

(***************************************************************************)
(* Properties of the browser control panel.                                *)
(***************************************************************************)
\* the modification rows of the page
Rows(g) ==
    IF g.modification_list.kind = "list" THEN Len(g.modification_list.items) ELSE 0

\* C22: while the input gallery holds no photo beyond the upload control,
\* or the modification list holds no row, the apply button is disabled
C22_ApplyDisabled ==
    gui.page = "open" =>
        ((Photos(gui) = 0 \/ Rows(gui) = 0) => gui.apply_disabled)

\* the first slot of the input gallery
FirstSlot(g) == g.input_photos.items[1]

\* C27: the first slot of the input gallery is the upload control; it is
\* shrunk exactly when a photo is in the gallery and at full size exactly
\* when none is
C27_UploadSlot ==
    gui.page = "open" =>
        /\ gui.input_photos.kind # "null"
        /\ FirstSlot(gui).type = "Upload"
        /\ FirstSlot(gui).className = "small-upload" <=> Photos(gui) >= 1
        /\ FirstSlot(gui).className = "upload" <=> Photos(gui) = 0

\* photos were uploaded and the gallery has been cleared again
C27_Witness ==
    /\ gui.page = "open"
    /\ gui.input_photos.kind = "component"
    /\ FirstSlot(gui).className = "upload"

\* the photo entries of a gallery
Entries(children, from) ==
    IF children.kind = "list"
    THEN SubSeq(children.items, from, Len(children.items)) ELSE <<>>

RECURSIVE Without(_, _)
Without(entries, name) ==
    IF entries = <<>> THEN <<>>
    ELSE IF Head(entries).name = name THEN Without(Tail(entries), name)
    ELSE <<Head(entries)>> \o Without(Tail(entries), name)

\* C23: a click on the remove button of a photo leaves no entry of that
\* photo in the input gallery and none in the output gallery, however many
\* results the output gallery held for it, and leaves the entries of every
\* other photo as they were
C23_RemoveDeletesEveryEntry ==
    [][\A name \in {f.name : f \in Files} :
          RemovePhoto(name) =>
              /\ Entries(gui'.input_photos, 2)
                     = Without(Entries(gui.input_photos, 2), name)
              /\ Entries(gui'.output_photos, 1)
                     = Without(Entries(gui.output_photos, 1), name)]_vars

\* a row as the claim validates it: a channel is selected and, on a row
\* of offset, scale, threshold or clamp, a keyword is selected or a value
\* is entered
PassesValidation(m) ==
    /\ Len(RowChannels(m, 1)) >= 1
    /\ RowName(m) \in NumericRows \cup {<<"c","l","a","m","p">>}
           => (m.select.kind # "null" \/ m.value.kind # "null")

\* C24: a click on apply calls the service once when every row passes the
\* validation, and shows a message without calling it when a row does not
C24_ApplyValidates ==
    [][Apply =>
          IF \A i \in 1..Rows(gui) : PassesValidation(gui.modification_list.items[i])
          THEN gui'.calls = 1
          ELSE gui'.calls = 0 /\ gui'.modification_error # NoMessage]_vars

====
